---------------------------- MODULE Spec2Model ----------------------------
(***************************************************************************)
(* The normalization-and-scoring pipeline of uiux-job-radar:               *)
(*   src/src/pipeline/score.py      rule score engine                      *)
(*   src/src/pipeline/normalize.py  field inference normalizer             *)
(*   src/src/pipeline/llm_score.py  optional rescoring overlay             *)
(*   src/src/cli.py                 pipeline orchestrator                  *)
(*                                                                         *)
(* A Python str is the tuple of its Unicode code points, so that           *)
(* str.lower, str.strip, the `in` substring test and re.search are         *)
(* computed character by character as the interpreter computes them.  The  *)
(* text each tuple spells is given in the comment at the end of its line.  *)
(***************************************************************************)
EXTENDS Integers, Sequences, FiniteSets, TLC

VARIABLES
    job,            \* the RawJob a pipeline function is called with
    ret,            \* the value that call returned
    caller,         \* "main": the CLI runs; "direct": process_jobs is called by itself
    LLM_AVAILABLE,  \* cli.py: whether llm_score and anthropic could be imported
    api_key,        \* whether ANTHROPIC_API_KEY is set
    client_ok,      \* whether anthropic.Anthropic() can be constructed
    top,            \* args.top as main read it: None or an integer
    raw_jobs,       \* process_jobs: the input batch
    use_llm,        \* rescoring requested (args.llm; cleared when it cannot be done)
    llm_limit,      \* record limit of the rescoring: None or an integer
    llm_client,     \* process_jobs: "None" or "client"
    i,              \* process_jobs: index of the next record (0-based, as enumerate)
    results,        \* the output dicts, in the order they are held
    llm_calls,      \* the calls of calculate_llm_score: the record's index, whether it raised
    saved,          \* the batch written to the output file (None: nothing written)
    file_lines,     \* load_raw_jobs: the lines of the input file
    pc              \* control position

vars == <<job, ret, caller, LLM_AVAILABLE, api_key, client_ok, top, raw_jobs, use_llm,
          llm_limit, llm_client, i, results, llm_calls, saved, file_lines, pc>>

(***************************************************************************)
(* Python built-ins on str                                                 *)
(***************************************************************************)

\* Python's None, as the value of an optional integer (see Some)
None == <<>>

\* str.lower on one character: the ASCII capitals are the only cased
\* characters of the texts used here (kana, kanji and punctuation are uncased)
LowerChar(c) == IF c \in 65..90 THEN c + 32 ELSE c

\* str.lower
lower(s) == [k \in 1..Len(s) |-> LowerChar(s[k])]

\* pattern in text
Contains(pattern, text) ==
    \E k \in 0..(Len(text) - Len(pattern)) :
        \A j \in 1..Len(pattern) : text[k + j] = pattern[j]

\* str.isspace for one character: what str.strip removes and what \s matches
IsSpace(c) == c \in {9, 10, 11, 12, 13, 32, 12288}

\* str.strip
strip(s) ==
    LET keep == {k \in 1..Len(s) : ~IsSpace(s[k])}
    IN IF keep = {} THEN <<>>
       ELSE LET first == CHOOSE k \in keep : \A m \in keep : k <= m
                last == CHOOSE k \in keep : \A m \in keep : m <= k
            IN SubSeq(s, first, last)

\* text.startswith(prefix)
startswith(text, prefix) ==
    Len(text) >= Len(prefix) /\ SubSeq(text, 1, Len(prefix)) = prefix

\* text.split("\n")
RECURSIVE split_lines(_)
split_lines(text) ==
    LET breaks == {k \in 1..Len(text) : text[k] = 10}
    IN IF breaks = {} THEN <<text>>
       ELSE LET k == CHOOSE b \in breaks : \A c \in breaks : b <= c
            IN <<SubSeq(text, 1, k - 1)>> \o split_lines(SubSeq(text, k + 1, Len(text)))

\* "\n".join(lines)
RECURSIVE join_lines(_)
join_lines(lines) ==
    IF lines = <<>> THEN <<>>
    ELSE IF Len(lines) = 1 THEN lines[1]
    ELSE lines[1] \o <<10>> \o join_lines(Tail(lines))

\* a < b on two str: by code points, a proper prefix first
RECURSIVE StrLess(_, _)
StrLess(a, b) ==
    IF b = <<>> THEN FALSE
    ELSE IF a = <<>> THEN TRUE
    ELSE IF a[1] # b[1] THEN a[1] < b[1]
    ELSE StrLess(Tail(a), Tail(b))

\* Python values whose type is decided at run time carry it
PyInt(n) == [type |-> "int", value |-> n]
PyStr(s) == [type |-> "str", value |-> s]
PyList(l) == [type |-> "list", value |-> l]
PyDict(d) == [type |-> "dict", value |-> d]
PyNone == [type |-> "NoneType", value |-> <<>>]

\* f"{a} {b}"
JoinSpace(a, b) == a \o <<32>> \o b

\* min and max of two integers
Min2(a, b) == IF a <= b THEN a ELSE b
Max2(a, b) == IF a >= b THEN a ELSE b

(***************************************************************************)
(* src/src/pipeline/score.py                                               *)
(***************************************************************************)

TITLE_POSITIVE_KEYWORDS == <<
    [keyword |-> <<85, 73, 12487, 12470, 12452, 12490, 12540>>, points |-> 30],   \* "UIデザイナー"
    [keyword |-> <<85, 88, 12487, 12470, 12452, 12490, 12540>>, points |-> 30],   \* "UXデザイナー"
    [keyword |-> <<85, 73, 47, 85, 88, 12487, 12470, 12452, 12490, 12540>>, points |-> 35],   \* "UI/UXデザイナー"
    [keyword |-> <<12503, 12525, 12480, 12463, 12488, 12487, 12470, 12452, 12490, 12540>>, points |-> 30],   \* "プロダクトデザイナー"
    [keyword |-> <<85, 88, 12522, 12469, 12540, 12481, 12515, 12540>>, points |-> 25],   \* "UXリサーチャー"
    [keyword |-> <<12487, 12470, 12452, 12531, 12510, 12493, 12540, 12472, 12515, 12540>>, points |-> 20],   \* "デザインマネージャー"
    [keyword |-> <<12487, 12470, 12452, 12531, 12522, 12540, 12489>>, points |-> 20],   \* "デザインリード"
    [keyword |-> <<12471, 12491, 12450, 12487, 12470, 12452, 12490, 12540>>, points |-> 15],   \* "シニアデザイナー"
    [keyword |-> <<12487, 12470, 12452, 12490, 12540>>, points |-> 10]   \* "デザイナー"
>>

SKILL_POSITIVE_KEYWORDS == <<
    [keyword |-> <<70, 105, 103, 109, 97>>, points |-> 15],   \* "Figma"
    [keyword |-> <<12487, 12470, 12452, 12531, 12471, 12473, 12486, 12512>>, points |-> 12],   \* "デザインシステム"
    [keyword |-> <<85, 88, 12522, 12469, 12540, 12481>>, points |-> 10],   \* "UXリサーチ"
    [keyword |-> <<12518, 12540, 12470, 12540, 12452, 12531, 12479, 12499, 12517, 12540>>, points |-> 8],   \* "ユーザーインタビュー"
    [keyword |-> <<12503, 12525, 12488, 12479, 12452, 12500, 12531, 12464>>, points |-> 8],   \* "プロトタイピング"
    [keyword |-> <<12518, 12540, 12470, 12499, 12522, 12486, 12451>>, points |-> 8],   \* "ユーザビリティ"
    [keyword |-> <<12506, 12523, 12477, 12490>>, points |-> 5],   \* "ペルソナ"
    [keyword |-> <<12459, 12473, 12479, 12510, 12540, 12472, 12515, 12540, 12491, 12540>>, points |-> 5],   \* "カスタマージャーニー"
    [keyword |-> <<65, 100, 111, 98, 101, 32, 88, 68>>, points |-> 5],   \* "Adobe XD"
    [keyword |-> <<83, 107, 101, 116, 99, 104>>, points |-> 5],   \* "Sketch"
    [keyword |-> <<73, 110, 86, 105, 115, 105, 111, 110>>, points |-> 3],   \* "InVision"
    [keyword |-> <<90, 101, 112, 108, 105, 110>>, points |-> 3]   \* "Zeplin"
>>

EMPLOYMENT_TYPE_SCORES == <<
    [keyword |-> <<26989, 21209, 22996, 35351>>, points |-> 10],   \* "業務委託"
    [keyword |-> <<22865, 32004, 31038, 21729>>, points |-> 5],   \* "契約社員"
    [keyword |-> <<27491, 31038, 21729>>, points |-> 0]   \* "正社員"
>>

REMOTE_POSITIVE_KEYWORDS == <<
    [keyword |-> <<12501, 12523, 12522, 12514, 12540, 12488>>, points |-> 8],   \* "フルリモート"
    [keyword |-> <<102, 117, 108, 108, 95, 114, 101, 109, 111, 116, 101>>, points |-> 8],   \* "full_remote"
    [keyword |-> <<12522, 12514, 12540, 12488, 21487>>, points |-> 5],   \* "リモート可"
    [keyword |-> <<104, 121, 98, 114, 105, 100>>, points |-> 3],   \* "hybrid"
    [keyword |-> <<22312, 23429, 21220, 21209>>, points |-> 3]   \* "在宅勤務"
>>

NEGATIVE_KEYWORDS == <<
    [keyword |-> <<12496, 12490, 12540>>, points |-> -15],   \* "バナー"
    [keyword |-> <<24195, 21578, 12487, 12470, 12452, 12531>>, points |-> -15],   \* "広告デザイン"
    [keyword |-> <<12464, 12521, 12501, 12451, 12483, 12463, 12487, 12470, 12452, 12490, 12540>>, points |-> -12],   \* "グラフィックデザイナー"
    [keyword |-> <<68, 84, 80>>, points |-> -10],   \* "DTP"
    [keyword |-> <<21360, 21047>>, points |-> -8],   \* "印刷"
    [keyword |-> <<12481, 12521, 12471>>, points |-> -8],   \* "チラシ"
    [keyword |-> <<76, 80, 21046, 20316>>, points |-> -5],   \* "LP制作"
    [keyword |-> <<84, 121, 112, 101, 83, 99, 114, 105, 112, 116>>, points |-> -5],   \* "TypeScript"
    [keyword |-> <<12501, 12525, 12531, 12488, 12456, 12531, 12489, 23455, 35013>>, points |-> -5],   \* "フロントエンド実装"
    [keyword |-> <<12467, 12540, 12487, 12451, 12531, 12464>>, points |-> -5],   \* "コーディング"
    [keyword |-> <<12510, 12540, 12463, 12450, 12483, 12503>>, points |-> -3]   \* "マークアップ"
>>

SCORE_MIN == 0
SCORE_MAX == 100
BASE_SCORE == 20

\* the loop of _match_keywords from entry n on: score is the sum so far and
\* matched the set of keywords already counted
RECURSIVE MatchKeywordsFrom(_, _, _, _, _)
MatchKeywordsFrom(text_lower, keywords, n, score, matched) ==
    IF n > Len(keywords) THEN score
    ELSE LET keyword == keywords[n].keyword
             points == keywords[n].points
         IN IF Contains(lower(keyword), text_lower) /\ keyword \notin matched
            THEN MatchKeywordsFrom(text_lower, keywords, n + 1,
                                   score + points, matched \cup {keyword})
            ELSE MatchKeywordsFrom(text_lower, keywords, n + 1, score, matched)

\* _match_keywords adding the points of a keyword once for each place it
\* occurs at
MatchKeywordsPerOccurrence(text, keywords) ==
    LET text_lower == lower(text)
        Places(keyword) ==
            {k \in 0..(Len(text_lower) - Len(keyword)) :
                SubSeq(text_lower, k + 1, k + Len(keyword)) = lower(keyword)}
        RECURSIVE SumFrom(_)
        SumFrom(n) ==
            IF n > Len(keywords) THEN 0
            ELSE keywords[n].points * Cardinality(Places(keywords[n].keyword))
                 + SumFrom(n + 1)
    IN SumFrom(1)

_match_keywords(text, keywords) ==
    MatchKeywordsFrom(lower(text), keywords, 1, 0, {})

\* the loop of _check_remote from entry n on: the first matching entry's
\* points are added and the loop is left
RECURSIVE CheckRemoteFrom(_, _)
CheckRemoteFrom(combined, n) ==
    IF n > Len(REMOTE_POSITIVE_KEYWORDS) THEN 0
    ELSE IF Contains(lower(REMOTE_POSITIVE_KEYWORDS[n].keyword), combined)
         THEN REMOTE_POSITIVE_KEYWORDS[n].points
         ELSE CheckRemoteFrom(combined, n + 1)

\* _check_remote without the break: the points of every matching entry
CheckRemoteSumAll(location, description) ==
    LET combined == lower(JoinSpace(location, description))
        RECURSIVE SumFrom(_)
        SumFrom(n) ==
            IF n > Len(REMOTE_POSITIVE_KEYWORDS) THEN 0
            ELSE (IF Contains(lower(REMOTE_POSITIVE_KEYWORDS[n].keyword), combined)
                  THEN REMOTE_POSITIVE_KEYWORDS[n].points ELSE 0)
                 + SumFrom(n + 1)
    IN SumFrom(1)

_check_remote(location, description) ==
    CheckRemoteFrom(lower(JoinSpace(location, description)), 1)

\* the loop of _check_employment_type from entry n on (the test is case-sensitive)
RECURSIVE CheckEmploymentFrom(_, _)
CheckEmploymentFrom(employment_type, n) ==
    IF n > Len(EMPLOYMENT_TYPE_SCORES) THEN 0
    ELSE IF Contains(EMPLOYMENT_TYPE_SCORES[n].keyword, employment_type)
         THEN EMPLOYMENT_TYPE_SCORES[n].points
         ELSE CheckEmploymentFrom(employment_type, n + 1)

_check_employment_type(employment_type) == CheckEmploymentFrom(employment_type, 1)

\* the sum calculate_score clips: base score plus the five components
RawScore(j) ==
    LET combined_text == JoinSpace(j.job_title, j.description)
    IN BASE_SCORE
       + _match_keywords(j.job_title, TITLE_POSITIVE_KEYWORDS)
       + _match_keywords(combined_text, SKILL_POSITIVE_KEYWORDS)
       + _check_employment_type(j.employment_type)
       + _check_remote(j.location, j.description)
       + _match_keywords(combined_text, NEGATIVE_KEYWORDS)

\* Clip without the upper limit
ClipLowerOnly(score) == Max2(SCORE_MIN, score)

\* max(SCORE_MIN, min(SCORE_MAX, score))
Clip(score) == Max2(SCORE_MIN, Min2(SCORE_MAX, score))

calculate_score(j) == Clip(RawScore(j))

(***************************************************************************)
(* src/src/pipeline/normalize.py                                           *)
(***************************************************************************)

\* dict tables are tuples of entries in declaration order, the order in which
\* dict.items() yields them
SKILL_DICTIONARY == <<
    [skill_name |-> <<70, 105, 103, 109, 97>>,   \* "Figma"
     patterns |-> <<<<102, 105, 103, 109, 97>>, <<12501, 12451, 12464, 12510>>>>],   \* "figma", "フィグマ"
    [skill_name |-> <<65, 100, 111, 98, 101, 32, 88, 68>>,   \* "Adobe XD"
     patterns |-> <<<<97, 100, 111, 98, 101, 32, 120, 100>>, <<97, 100, 111, 98, 101, 120, 100>>, <<120, 100>>>>],   \* "adobe xd", "adobexd", "xd"
    [skill_name |-> <<83, 107, 101, 116, 99, 104>>,   \* "Sketch"
     patterns |-> <<<<115, 107, 101, 116, 99, 104>>, <<12473, 12465, 12483, 12481>>>>],   \* "sketch", "スケッチ"
    [skill_name |-> <<12487, 12470, 12452, 12531, 12471, 12473, 12486, 12512>>,   \* "デザインシステム"
     patterns |-> <<<<12487, 12470, 12452, 12531, 12471, 12473, 12486, 12512>>, <<100, 101, 115, 105, 103, 110, 32, 115, 121, 115, 116, 101, 109>>, <<100, 101, 115, 105, 103, 110, 115, 121, 115, 116, 101, 109>>>>],   \* "デザインシステム", "design system", "designsystem"
    [skill_name |-> <<85, 88, 12522, 12469, 12540, 12481>>,   \* "UXリサーチ"
     patterns |-> <<<<117, 120, 12522, 12469, 12540, 12481>>, <<117, 120, 32, 114, 101, 115, 101, 97, 114, 99, 104>>, <<117, 120, 114, 101, 115, 101, 97, 114, 99, 104>>, <<12518, 12540, 12470, 12540, 12522, 12469, 12540, 12481>>>>],   \* "uxリサーチ", "ux research", "uxresearch", "ユーザーリサーチ"
    [skill_name |-> <<12518, 12540, 12470, 12540, 12452, 12531, 12479, 12499, 12517, 12540>>,   \* "ユーザーインタビュー"
     patterns |-> <<<<12518, 12540, 12470, 12540, 12452, 12531, 12479, 12499, 12517, 12540>>, <<117, 115, 101, 114, 32, 105, 110, 116, 101, 114, 118, 105, 101, 119>>, <<12518, 12540, 12470, 12452, 12531, 12479, 12499, 12517, 12540>>>>],   \* "ユーザーインタビュー", "user interview", "ユーザインタビュー"
    [skill_name |-> <<12503, 12525, 12488, 12479, 12452, 12500, 12531, 12464>>,   \* "プロトタイピング"
     patterns |-> <<<<12503, 12525, 12488, 12479, 12452, 12500, 12531, 12464>>, <<112, 114, 111, 116, 111, 116, 121, 112, 105, 110, 103>>, <<12503, 12525, 12488, 12479, 12452, 12503>>>>],   \* "プロトタイピング", "prototyping", "プロトタイプ"
    [skill_name |-> <<12518, 12540, 12470, 12499, 12522, 12486, 12451, 12486, 12473, 12488>>,   \* "ユーザビリティテスト"
     patterns |-> <<<<12518, 12540, 12470, 12499, 12522, 12486, 12451, 12486, 12473, 12488>>, <<117, 115, 97, 98, 105, 108, 105, 116, 121, 32, 116, 101, 115, 116>>, <<12518, 12540, 12470, 12499, 12522, 12486, 12451>>>>],   \* "ユーザビリティテスト", "usability test", "ユーザビリティ"
    [skill_name |-> <<12506, 12523, 12477, 12490>>,   \* "ペルソナ"
     patterns |-> <<<<12506, 12523, 12477, 12490>>, <<112, 101, 114, 115, 111, 110, 97>>>>],   \* "ペルソナ", "persona"
    [skill_name |-> <<12459, 12473, 12479, 12510, 12540, 12472, 12515, 12540, 12491, 12540>>,   \* "カスタマージャーニー"
     patterns |-> <<<<12459, 12473, 12479, 12510, 12540, 12472, 12515, 12540, 12491, 12540>>, <<99, 117, 115, 116, 111, 109, 101, 114, 32, 106, 111, 117, 114, 110, 101, 121>>, <<12472, 12515, 12540, 12491, 12540, 12510, 12483, 12503>>>>],   \* "カスタマージャーニー", "customer journey", "ジャーニーマップ"
    [skill_name |-> <<87, 101, 98, 12487, 12470, 12452, 12531>>,   \* "Webデザイン"
     patterns |-> <<<<119, 101, 98, 12487, 12470, 12452, 12531>>, <<12454, 12455, 12502, 12487, 12470, 12452, 12531>>, <<119, 101, 98, 32, 100, 101, 115, 105, 103, 110>>>>],   \* "webデザイン", "ウェブデザイン", "web design"
    [skill_name |-> <<12514, 12496, 12452, 12523, 12450, 12503, 12522, 12487, 12470, 12452, 12531>>,   \* "モバイルアプリデザイン"
     patterns |-> <<<<12450, 12503, 12522, 12487, 12470, 12452, 12531>>, <<12514, 12496, 12452, 12523, 12487, 12470, 12452, 12531>>, <<97, 112, 112, 32, 100, 101, 115, 105, 103, 110>>, <<105, 111, 115, 32, 100, 101, 115, 105, 103, 110>>, <<97, 110, 100, 114, 111, 105, 100, 32, 100, 101, 115, 105, 103, 110>>>>],   \* "アプリデザイン", "モバイルデザイン", "app design", "ios design", "android design"
    [skill_name |-> <<73, 110, 86, 105, 115, 105, 111, 110>>,   \* "InVision"
     patterns |-> <<<<105, 110, 118, 105, 115, 105, 111, 110>>, <<12452, 12531, 12499, 12472, 12519, 12531>>>>],   \* "invision", "インビジョン"
    [skill_name |-> <<90, 101, 112, 108, 105, 110>>,   \* "Zeplin"
     patterns |-> <<<<122, 101, 112, 108, 105, 110>>, <<12476, 12503, 12522, 12531>>>>],   \* "zeplin", "ゼプリン"
    [skill_name |-> <<80, 104, 111, 116, 111, 115, 104, 111, 112>>,   \* "Photoshop"
     patterns |-> <<<<112, 104, 111, 116, 111, 115, 104, 111, 112>>, <<12501, 12457, 12488, 12471, 12519, 12483, 12503>>, <<12501, 12457, 12488, 12471, 12519>>>>],   \* "photoshop", "フォトショップ", "フォトショ"
    [skill_name |-> <<73, 108, 108, 117, 115, 116, 114, 97, 116, 111, 114>>,   \* "Illustrator"
     patterns |-> <<<<105, 108, 108, 117, 115, 116, 114, 97, 116, 111, 114>>, <<12452, 12521, 12473, 12488, 12524, 12540, 12479, 12540>>, <<12452, 12521, 12524>>>>]   \* "illustrator", "イラストレーター", "イラレ"
>>

EMPLOYMENT_TYPE_PATTERNS == <<
    [emp_type |-> <<27491, 31038, 21729>>,   \* "正社員"
     patterns |-> <<<<27491, 31038, 21729>>, <<27491, 35215, 38599, 29992>>, <<112, 101, 114, 109, 97, 110, 101, 110, 116>>>>],   \* "正社員", "正規雇用", "permanent"
    [emp_type |-> <<22865, 32004, 31038, 21729>>,   \* "契約社員"
     patterns |-> <<<<22865, 32004, 31038, 21729>>, <<26377, 26399, 38599, 29992>>, <<99, 111, 110, 116, 114, 97, 99, 116>>>>],   \* "契約社員", "有期雇用", "contract"
    [emp_type |-> <<26989, 21209, 22996, 35351>>,   \* "業務委託"
     patterns |-> <<<<26989, 21209, 22996, 35351>>, <<12501, 12522, 12540, 12521, 12531, 12473>>, <<102, 114, 101, 101, 108, 97, 110, 99, 101>>, <<22996, 35351>>>>],   \* "業務委託", "フリーランス", "freelance", "委託"
    [emp_type |-> <<27966, 36963>>,   \* "派遣"
     patterns |-> <<<<27966, 36963>>, <<27966, 36963, 31038, 21729>>>>],   \* "派遣", "派遣社員"
    [emp_type |-> <<12450, 12523, 12496, 12452, 12488>>,   \* "アルバイト"
     patterns |-> <<<<12450, 12523, 12496, 12452, 12488>>, <<12497, 12540, 12488>>, <<112, 97, 114, 116, 45, 116, 105, 109, 101>>>>],   \* "アルバイト", "パート", "part-time"
    [emp_type |-> <<12452, 12531, 12479, 12540, 12531>>,   \* "インターン"
     patterns |-> <<<<12452, 12531, 12479, 12540, 12531>>, <<105, 110, 116, 101, 114, 110>>>>]   \* "インターン", "intern"
>>

REMOTE_TYPE_PATTERNS == <<
    [remote_type |-> "full_remote",
     patterns |-> <<<<12501, 12523, 12522, 12514, 12540, 12488>>, <<102, 117, 108, 108, 32, 114, 101, 109, 111, 116, 101>>, <<102, 117, 108, 108, 114, 101, 109, 111, 116, 101>>, <<23436, 20840, 12522, 12514, 12540, 12488>>, <<102, 117, 108, 108, 95, 114, 101, 109, 111, 116, 101>>>>],   \* "フルリモート", "full remote", "fullremote", "完全リモート", "full_remote"
    [remote_type |-> "hybrid",
     patterns |-> <<<<12495, 12452, 12502, 12522, 12483, 12489>>, <<104, 121, 98, 114, 105, 100>>, <<36913, 50, 20986, 31038>>, <<36913, 51, 20986, 31038>>, <<12522, 12514, 12540, 12488, 20341, 29992>>, <<19968, 37096, 12522, 12514, 12540, 12488>>>>],   \* "ハイブリッド", "hybrid", "週2出社", "週3出社", "リモート併用", "一部リモート"
    [remote_type |-> "remote_ok",
     patterns |-> <<<<12522, 12514, 12540, 12488, 21487>>, <<12522, 12514, 12540, 12488, 12527, 12540, 12463, 21487>>, <<22312, 23429, 21220, 21209, 21487>>, <<12486, 12524, 12527, 12540, 12463, 21487>>>>],   \* "リモート可", "リモートワーク可", "在宅勤務可", "テレワーク可"
    [remote_type |-> "office",
     patterns |-> <<<<20986, 31038>>, <<12458, 12501, 12451, 12473, 21220, 21209>>, <<24120, 39376>>, <<12458, 12531, 12469, 12452, 12488>>>>]   \* "出社", "オフィス勤務", "常駐", "オンサイト"
>>

CATEGORY_KEYWORDS == <<
    [category |-> "uiux",
     patterns |-> <<<<117, 105, 12487, 12470, 12452, 12490, 12540>>, <<117, 120, 12487, 12470, 12452, 12490, 12540>>, <<117, 105, 47, 117, 120, 12487, 12470, 12452, 12490, 12540>>, <<12503, 12525, 12480, 12463, 12488, 12487, 12470, 12452, 12490, 12540>>, <<117, 120, 12522, 12469, 12540, 12481, 12515, 12540>>, <<12487, 12470, 12452, 12531, 12510, 12493, 12540, 12472, 12515, 12540>>, <<117, 105, 117, 120>>, <<117, 105, 47, 117, 120>>>>],   \* "uiデザイナー", "uxデザイナー", "ui/uxデザイナー", "プロダクトデザイナー", "uxリサーチャー", "デザインマネージャー", "uiux", "ui/ux"
    [category |-> "graphic",
     patterns |-> <<<<12464, 12521, 12501, 12451, 12483, 12463, 12487, 12470, 12452, 12490, 12540>>, <<12464, 12521, 12501, 12451, 12483, 12463>>, <<12496, 12490, 12540>>, <<24195, 21578, 12487, 12470, 12452, 12531>>, <<100, 116, 112>>, <<21360, 21047>>, <<12481, 12521, 12471>>, <<12509, 12473, 12479, 12540>>, <<12497, 12483, 12465, 12540, 12472, 12487, 12470, 12452, 12531>>>>],   \* "グラフィックデザイナー", "グラフィック", "バナー", "広告デザイン", "dtp", "印刷", "チラシ", "ポスター", "パッケージデザイン"
    [category |-> "frontend_like",
     patterns |-> <<<<12501, 12525, 12531, 12488, 12456, 12531, 12489>>, <<102, 114, 111, 110, 116, 101, 110, 100>>, <<12510, 12540, 12463, 12450, 12483, 12503>>, <<12467, 12540, 12480, 12540>>, <<104, 116, 109, 108, 47, 99, 115, 115>>, <<119, 101, 98, 12467, 12540, 12480, 12540>>, <<117, 105, 12456, 12531, 12472, 12491, 12450>>>>]   \* "フロントエンド", "frontend", "マークアップ", "コーダー", "html/css", "webコーダー", "uiエンジニア"
>>

\* CATEGORY_ORDER with graphic tried before uiux
CategoryOrderGraphicFirst == <<"graphic", "uiux", "frontend_like">>

\* the priority list _infer_category walks
CATEGORY_ORDER == <<"uiux", "graphic", "frontend_like">>

\* CATEGORY_KEYWORDS[category]
CategoryKeywordsOf(category) ==
    LET n == CHOOSE m \in 1..Len(CATEGORY_KEYWORDS) : CATEGORY_KEYWORDS[m].category = category
    IN CATEGORY_KEYWORDS[n].patterns

(* Regular expressions.  A pattern of COMP_PATTERNS is a sequence of items,   *)
(* each a character class with a greedy repetition count; `group` is the      *)
(* number of the capture group the item is (0: none).                         *)
ClassDigit == (48..57) \cup (65296..65305)          \* \d: 0-9 and the full-width digits
ClassSpace == {9, 10, 11, 12, 13, 32, 12288}        \* \s
ClassSep == {<<12316, 126, 65374, 12540, 8722, 45>>[k] : k \in 1..6}          \* [〜~～ー−-]

One(cls) == [cls |-> cls, min |-> 1, max |-> 1, star |-> FALSE, group |-> 0]
Opt(cls) == [cls |-> cls, min |-> 0, max |-> 1, star |-> FALSE, group |-> 0]
Star(cls) == [cls |-> cls, min |-> 0, max |-> 0, star |-> TRUE, group |-> 0]
Capture(g, cls, lo, hi) == [cls |-> cls, min |-> lo, max |-> hi, star |-> FALSE, group |-> g]
Lit(s) == One({s[1]})
OptLit(s) == Opt({s[1]})


\* each entry: the pattern string as written (source) and the items it compiles to
COMP_PATTERNS == <<
    [source |-> <<24180, 21454, 92, 115, 42, 40, 92, 100, 123, 51, 44, 52, 125, 41, 92, 115, 42, 19975, 63, 92, 115, 42, 91, 12316, 126, 65374, 12540, 8722, 45, 93, 92, 115, 42, 40, 92, 100, 123, 51, 44, 52, 125, 41, 92, 115, 42, 19975>>,   \* "年収\s*(\d{3,4})\s*万?\s*[〜~～ー−-]\s*(\d{3,4})\s*万"
     items |-> <<Lit(<<24180>>), Lit(<<21454>>), Star(ClassSpace),   \* "年", "収"
                 Capture(1, ClassDigit, 3, 4), Star(ClassSpace), OptLit(<<19975>>),   \* "万"
                 Star(ClassSpace), One(ClassSep), Star(ClassSpace),
                 Capture(2, ClassDigit, 3, 4), Star(ClassSpace), Lit(<<19975>>)>>],   \* "万"
    [source |-> <<40, 92, 100, 123, 51, 44, 52, 125, 41, 92, 115, 42, 19975, 20870, 63, 92, 115, 42, 91, 12316, 126, 65374, 12540, 8722, 45, 93, 92, 115, 42, 40, 92, 100, 123, 51, 44, 52, 125, 41, 92, 115, 42, 19975, 20870, 63>>,   \* "(\d{3,4})\s*万円?\s*[〜~～ー−-]\s*(\d{3,4})\s*万円?"
     items |-> <<Capture(1, ClassDigit, 3, 4), Star(ClassSpace), Lit(<<19975>>),   \* "万"
                 OptLit(<<20870>>), Star(ClassSpace), One(ClassSep), Star(ClassSpace),   \* "円"
                 Capture(2, ClassDigit, 3, 4), Star(ClassSpace), Lit(<<19975>>),   \* "万"
                 OptLit(<<20870>>)>>],   \* "円"
    [source |-> <<26376, 21454, 63, 92, 115, 42, 40, 92, 100, 123, 50, 44, 51, 125, 41, 92, 115, 42, 19975, 63, 92, 115, 42, 91, 12316, 126, 65374, 12540, 8722, 45, 93, 92, 115, 42, 40, 92, 100, 123, 50, 44, 51, 125, 41, 92, 115, 42, 19975>>,   \* "月収?\s*(\d{2,3})\s*万?\s*[〜~～ー−-]\s*(\d{2,3})\s*万"
     items |-> <<Lit(<<26376>>), OptLit(<<21454>>), Star(ClassSpace),   \* "月", "収"
                 Capture(1, ClassDigit, 2, 3), Star(ClassSpace), OptLit(<<19975>>),   \* "万"
                 Star(ClassSpace), One(ClassSep), Star(ClassSpace),
                 Capture(2, ClassDigit, 2, 3), Star(ClassSpace), Lit(<<19975>>)>>]   \* "万"
>>

NoMatch == [ok |-> FALSE, groups |-> << <<>>, <<>> >>]

\* the longest run of characters of the item's class starting at pos, at most
\* the item's maximal count
RunLength(item, text, pos) ==
    LET rest == Len(text) - pos + 1
        limit == IF item.star THEN rest ELSE Min2(item.max, rest)
        runs == {n \in 0..limit : \A k \in 0..(n - 1) : text[pos + k] \in item.cls}
    IN CHOOSE n \in runs : \A m \in runs : m <= n

\* the backtracking matcher of re: items k.. matched at pos; a greedy item
\* takes the longest run first and gives characters back one at a time
RECURSIVE MatchItems(_, _, _, _)
RECURSIVE TryCount(_, _, _, _, _)
MatchItems(items, k, text, pos) ==
    IF k > Len(items) THEN [ok |-> TRUE, groups |-> << <<>>, <<>> >>]
    ELSE TryCount(items, k, text, pos, RunLength(items[k], text, pos))

TryCount(items, k, text, pos, n) ==
    IF n < items[k].min THEN NoMatch
    ELSE LET rest == MatchItems(items, k + 1, text, pos + n)
         IN IF rest.ok
            THEN IF items[k].group > 0
                 THEN [rest EXCEPT !.groups[items[k].group] = SubSeq(text, pos, pos + n - 1)]
                 ELSE rest
            ELSE TryCount(items, k, text, pos, n - 1)

\* re.search: the match at the leftmost position that has one
RECURSIVE SearchFrom(_, _, _)
SearchFrom(items, text, start) ==
    IF start > Len(text) + 1 THEN NoMatch
    ELSE LET m == MatchItems(items, 1, text, start)
         IN IF m.ok THEN m ELSE SearchFrom(items, text, start + 1)

re_search(pattern, text) == SearchFrom(pattern.items, text, 1)

\* int() of a digit string
DigitValue(c) == IF c <= 57 THEN c - 48 ELSE c - 65296
RECURSIVE ParseInt(_)
ParseInt(digits) ==
    IF digits = <<>> THEN 0
    ELSE 10 * ParseInt(SubSeq(digits, 1, Len(digits) - 1)) + DigitValue(digits[Len(digits)])

\* an optional integer: None is the empty tuple, the integer v the tuple <<v>>
Some(v) == <<v>>

\* the loop of _extract_skills from entry n on; the inner loop stops at the
\* label's first matching pattern
RECURSIVE ExtractSkillsFrom(_, _, _)
ExtractSkillsFrom(text_lower, n, matched_skills) ==
    IF n > Len(SKILL_DICTIONARY) THEN matched_skills
    ELSE LET skill_name == SKILL_DICTIONARY[n].skill_name
             patterns == SKILL_DICTIONARY[n].patterns
             hit == \E p \in 1..Len(patterns) : Contains(lower(patterns[p]), text_lower)
             present == \E m \in 1..Len(matched_skills) : matched_skills[m] = skill_name
         IN IF hit /\ ~present
            THEN ExtractSkillsFrom(text_lower, n + 1, Append(matched_skills, skill_name))
            ELSE ExtractSkillsFrom(text_lower, n + 1, matched_skills)

\* _extract_skills without the break and without the membership test: a label
\* is appended once for each of its patterns that occurs
RECURSIVE ExtractSkillsEveryPatternFrom(_, _)
ExtractSkillsEveryPatternFrom(text_lower, n) ==
    IF n > Len(SKILL_DICTIONARY) THEN <<>>
    ELSE LET patterns == SKILL_DICTIONARY[n].patterns
             hits == SelectSeq(patterns, LAMBDA p : Contains(lower(p), text_lower))
         IN [k \in 1..Len(hits) |-> SKILL_DICTIONARY[n].skill_name]
            \o ExtractSkillsEveryPatternFrom(text_lower, n + 1)

ExtractSkillsEveryPattern(text) == ExtractSkillsEveryPatternFrom(lower(text), 1)

\* _extract_skills without lowering the text
ExtractSkillsCaseSensitive(text) == ExtractSkillsFrom(text, 1, <<>>)

\* _extract_skills appending to a list that outlives the call
ExtractSkillsSharedList(text) ==
    (IF pc = "return" THEN ret.skills ELSE <<>>) \o ExtractSkillsFrom(lower(text), 1, <<>>)

_extract_skills(text) == ExtractSkillsFrom(lower(text), 1, <<>>)

\* whether any pattern of the list occurs in the (lowered) text
AnyPattern(patterns, combined) ==
    \E p \in 1..Len(patterns) : Contains(lower(patterns[p]), combined)

RECURSIVE InferEmploymentFrom(_, _, _)
InferEmploymentFrom(raw_type, combined, n) ==
    IF n > Len(EMPLOYMENT_TYPE_PATTERNS)
    THEN IF raw_type # <<>> THEN raw_type ELSE <<19981, 26126>>   \* "不明"
    ELSE IF AnyPattern(EMPLOYMENT_TYPE_PATTERNS[n].patterns, combined)
         THEN EMPLOYMENT_TYPE_PATTERNS[n].emp_type
         ELSE InferEmploymentFrom(raw_type, combined, n + 1)

\* _infer_employment_type looking at the raw employment type alone
InferEmploymentRawTypeOnly(raw_type, description) ==
    InferEmploymentFrom(raw_type, lower(raw_type), 1)

_infer_employment_type(raw_type, description) ==
    InferEmploymentFrom(raw_type, lower(JoinSpace(raw_type, description)), 1)

RECURSIVE InferRemoteFrom(_, _)
InferRemoteFrom(combined, n) ==
    IF n > Len(REMOTE_TYPE_PATTERNS) THEN "unknown"
    ELSE IF AnyPattern(REMOTE_TYPE_PATTERNS[n].patterns, combined)
         THEN REMOTE_TYPE_PATTERNS[n].remote_type
         ELSE InferRemoteFrom(combined, n + 1)

\* _infer_remote_type looking at the description alone
InferRemoteDescriptionOnly(location, description) ==
    InferRemoteFrom(lower(description), 1)

_infer_remote_type(location, description) ==
    InferRemoteFrom(lower(JoinSpace(location, description)), 1)

RECURSIVE InferCategoryFrom(_, _)
InferCategoryFrom(combined, n) ==
    IF n > Len(CATEGORY_ORDER) THEN "other"
    ELSE IF AnyPattern(CategoryKeywordsOf(CATEGORY_ORDER[n]), combined)
         THEN CATEGORY_ORDER[n]
         ELSE InferCategoryFrom(combined, n + 1)

_infer_category(job_title, description) ==
    InferCategoryFrom(lower(JoinSpace(job_title, description)), 1)

\* IsMonthly testing for a word no pattern holds
IsMonthlyWrongKey(pattern) == Contains(<<26376, 32102>>, pattern.source)   \* "月給"

\* "月収" in pattern or "月" in pattern
IsMonthly(pattern) ==
    Contains(<<26376, 21454>>, pattern.source) \/ Contains(<<26376>>, pattern.source)   \* "月収", "月"

\* InRange without the upper limit
InRangeLowerOnly(min_val, max_val) == 100 <= min_val /\ 100 <= max_val

\* 100 <= min_val <= 3000 and 100 <= max_val <= 3000
InRange(min_val, max_val) ==
    100 <= min_val /\ min_val <= 3000 /\ 100 <= max_val /\ max_val <= 3000

\* _extract_compensation giving up at the first pattern that matches
RECURSIVE ExtractCompensationStopFrom(_, _)
ExtractCompensationStopFrom(description, n) ==
    IF n > Len(COMP_PATTERNS) THEN <<None, None>>
    ELSE LET match == re_search(COMP_PATTERNS[n], description)
             factor == IF IsMonthly(COMP_PATTERNS[n]) THEN 12 ELSE 1
             min_val == ParseInt(match.groups[1]) * factor
             max_val == ParseInt(match.groups[2]) * factor
         IN IF match.ok
            THEN IF InRange(min_val, max_val)
                 THEN <<Some(min_val), Some(max_val)>>
                 ELSE <<None, None>>
            ELSE ExtractCompensationStopFrom(description, n + 1)

ExtractCompensationFirstMatchOnly(description) ==
    ExtractCompensationStopFrom(description, 1)

\* the loop of _extract_compensation from pattern n on
RECURSIVE ExtractCompensationFrom(_, _)
ExtractCompensationFrom(description, n) ==
    IF n > Len(COMP_PATTERNS) THEN <<None, None>>
    ELSE LET match == re_search(COMP_PATTERNS[n], description)
             factor == IF IsMonthly(COMP_PATTERNS[n]) THEN 12 ELSE 1
             min_val == ParseInt(match.groups[1]) * factor
             max_val == ParseInt(match.groups[2]) * factor
         IN IF match.ok /\ InRange(min_val, max_val)
            THEN <<Some(min_val), Some(max_val)>>
            ELSE ExtractCompensationFrom(description, n + 1)

_extract_compensation(description) == ExtractCompensationFrom(description, 1)

\* NormalizedResult, with the fields of its NormJob laid flat
normalize(raw, score) ==
    LET comp == _extract_compensation(raw.description)
    IN [source |-> raw.source,
        company_name |-> strip(raw.company_name),
        job_title |-> strip(raw.job_title),
        url |-> strip(raw.url),
        posted_date |-> raw.posted_date,
        description |-> strip(raw.description),
        location |-> strip(raw.location),
        employment_type |-> _infer_employment_type(raw.employment_type, raw.description),
        score |-> score,
        skills |-> _extract_skills(JoinSpace(raw.job_title, raw.description)),
        category |-> _infer_category(raw.job_title, raw.description),
        remote_type |-> _infer_remote_type(raw.location, raw.description),
        comp_min |-> comp[1],
        comp_max |-> comp[2]]

(***************************************************************************)
(* src/src/pipeline/llm_score.py                                           *)
(***************************************************************************)

\* json.loads, on the documents the external model answers with: a text that
\* is one of them (JSON white space around it apart) parses to the value
\* given, every other text of the model is no JSON document
JSON_DOCS == <<
    [text |-> <<123, 34, 100, 105, 115, 112, 97, 116, 99, 104, 95, 115, 99, 111, 114, 101, 34, 58, 32, 56, 48, 44, 32, 34, 117, 114, 103, 101, 110, 99, 121, 95, 115, 99, 111, 114, 101, 34, 58, 32, 54, 48, 44, 32, 34, 115, 107, 105, 108, 108, 95, 109, 97, 116, 99, 104, 95, 115, 99, 111, 114, 101, 34, 58, 32, 57, 48, 44, 32, 34, 116, 111, 116, 97, 108, 95, 115, 99, 111, 114, 101, 34, 58, 32, 56, 53, 44, 32, 34, 114, 101, 97, 115, 111, 110, 34, 58, 32, 34, 111, 107, 34, 44, 32, 34, 116, 97, 103, 115, 34, 58, 32, 91, 34, 24613, 21215, 34, 93, 125>>,   \* '{"dispatch_score": 80, "urgency_score": 60, "skill_match_score": 90, "total_score": 85, "reason": "ok", "tags": ["急募"]}'
     value |-> PyDict([dispatch_score |-> PyInt(80), urgency_score |-> PyInt(60),
                       skill_match_score |-> PyInt(90), total_score |-> PyInt(85),
                       reason |-> PyStr(<<111, 107>>),   \* "ok"
                       tags |-> PyList(<<PyStr(<<24613, 21215>>)>>)])],   \* "急募"
    [text |-> <<123, 34, 100, 105, 115, 112, 97, 116, 99, 104, 95, 115, 99, 111, 114, 101, 34, 58, 32, 56, 48, 44, 32, 34, 117, 114, 103, 101, 110, 99, 121, 95, 115, 99, 111, 114, 101, 34, 58, 32, 54, 48, 44, 32, 34, 115, 107, 105, 108, 108, 95, 109, 97, 116, 99, 104, 95, 115, 99, 111, 114, 101, 34, 58, 32, 57, 48, 44, 32, 34, 116, 111, 116, 97, 108, 95, 115, 99, 111, 114, 101, 34, 58, 32, 49, 53, 48, 44, 32, 34, 114, 101, 97, 115, 111, 110, 34, 58, 32, 34, 111, 107, 34, 44, 32, 34, 116, 97, 103, 115, 34, 58, 32, 91, 34, 24613, 21215, 34, 93, 125>>,   \* '{"dispatch_score": 80, "urgency_score": 60, "skill_match_score": 90, "total_score": 150, "reason": "ok", "tags": ["急募"]}'
     value |-> PyDict([dispatch_score |-> PyInt(80), urgency_score |-> PyInt(60),
                       skill_match_score |-> PyInt(90), total_score |-> PyInt(150),
                       reason |-> PyStr(<<111, 107>>),   \* "ok"
                       tags |-> PyList(<<PyStr(<<24613, 21215>>)>>)])],   \* "急募"
    [text |-> <<123, 10, 32, 32, 34, 100, 105, 115, 112, 97, 116, 99, 104, 95, 115, 99, 111, 114, 101, 34, 58, 32, 55, 48, 44, 10, 32, 32, 34, 114, 101, 97, 115, 111, 110, 34, 58, 32, 34, 112, 97, 114, 116, 105, 97, 108, 34, 10, 125>>,   \* '{\n  "dispatch_score": 70,\n  "reason": "partial"\n}'
     value |-> PyDict([dispatch_score |-> PyInt(70), reason |-> PyStr(<<112, 97, 114, 116, 105, 97, 108>>)])],   \* "partial"
    [text |-> <<123, 34, 116, 111, 116, 97, 108, 95, 115, 99, 111, 114, 101, 34, 58, 32, 34, 56, 53, 34, 125>>,   \* '{"total_score": "85"}'
     value |-> PyDict([total_score |-> PyStr(<<56, 53>>)])],   \* "85"
    [text |-> <<91, 56, 53, 93>>,   \* "[85]"
     value |-> PyList(<<PyInt(85)>>)],
    [text |-> <<56, 53>>,   \* "85"
     value |-> PyInt(85)],
    [text |-> <<34, 111, 107, 34>>,   \* '"ok"'
     value |-> PyStr(<<111, 107>>)],   \* "ok"
    [text |-> <<123, 34, 115, 111, 117, 114, 99, 101, 34, 58, 32, 34, 104, 114, 109, 111, 115, 34, 44, 32, 34, 99, 111, 109, 112, 97, 110, 121, 95, 110, 97, 109, 101, 34, 58, 32, 34, 26666, 24335, 20250, 31038, 65, 34, 44, 32, 34, 106, 111, 98, 95, 116, 105, 116, 108, 101, 34, 58, 32, 34, 85, 73, 12487, 12470, 12452, 12490, 12540, 34, 44, 32, 34, 117, 114, 108, 34, 58, 32, 34, 104, 116, 116, 112, 115, 58, 47, 47, 101, 120, 97, 109, 112, 108, 101, 46, 99, 111, 109, 47, 49, 34, 44, 32, 34, 112, 111, 115, 116, 101, 100, 95, 111, 114, 95, 117, 112, 100, 97, 116, 101, 100, 95, 97, 116, 34, 58, 32, 34, 50, 48, 50, 53, 45, 48, 49, 45, 49, 53, 34, 44, 32, 34, 100, 101, 115, 99, 114, 105, 112, 116, 105, 111, 110, 34, 58, 32, 34, 70, 105, 103, 109, 97, 34, 44, 32, 34, 108, 111, 99, 97, 116, 105, 111, 110, 34, 58, 32, 34, 26481, 20140, 34, 44, 32, 34, 101, 109, 112, 108, 111, 121, 109, 101, 110, 116, 95, 116, 121, 112, 101, 34, 58, 32, 34, 27491, 31038, 21729, 34, 125>>,   \* '{"source": "hrmos", "company_name": "株式会社A", "job_title": "UIデザイナー", "url": "https://example.com/1", "posted_or_updated_at": "2025-01-15", "description": "Figma", "location": "東京", "employment_type": "正社員"}'
     value |-> PyDict([source |-> PyStr(<<104, 114, 109, 111, 115>>), company_name |-> PyStr(<<26666, 24335, 20250, 31038, 65>>),   \* "hrmos", "株式会社A"
                       job_title |-> PyStr(<<85, 73, 12487, 12470, 12452, 12490, 12540>>), url |-> PyStr(<<104, 116, 116, 112, 115, 58, 47, 47, 101, 120, 97, 109, 112, 108, 101, 46, 99, 111, 109, 47, 49>>),   \* "UIデザイナー", "https://example.com/1"
                       posted_or_updated_at |-> PyStr(<<50, 48, 50, 53, 45, 48, 49, 45, 49, 53>>),   \* "2025-01-15"
                       description |-> PyStr(<<70, 105, 103, 109, 97>>), location |-> PyStr(<<26481, 20140>>),   \* "Figma", "東京"
                       employment_type |-> PyStr(<<27491, 31038, 21729>>)])],   \* "正社員"
    [text |-> <<123, 34, 99, 111, 109, 112, 97, 110, 121, 95, 110, 97, 109, 101, 34, 58, 32, 34, 26666, 24335, 20250, 31038, 66, 34, 44, 32, 34, 112, 111, 115, 116, 101, 100, 95, 111, 114, 95, 117, 112, 100, 97, 116, 101, 100, 95, 97, 116, 34, 58, 32, 34, 26152, 26085, 34, 125>>,   \* '{"company_name": "株式会社B", "posted_or_updated_at": "昨日"}'
     value |-> PyDict([company_name |-> PyStr(<<26666, 24335, 20250, 31038, 66>>),   \* "株式会社B"
                       posted_or_updated_at |-> PyStr(<<26152, 26085>>)])],   \* "昨日"
    [text |-> <<123, 34, 99, 111, 109, 112, 97, 110, 121, 95, 110, 97, 109, 101, 34, 58, 32, 34, 26666, 24335, 20250, 31038, 67, 34, 44, 32, 34, 106, 111, 98, 95, 116, 105, 116, 108, 101, 34, 58, 32, 110, 117, 108, 108, 44, 32, 34, 100, 101, 115, 99, 114, 105, 112, 116, 105, 111, 110, 34, 58, 32, 110, 117, 108, 108, 125>>,   \* '{"company_name": "株式会社C", "job_title": null, "description": null}'
     value |-> PyDict([company_name |-> PyStr(<<26666, 24335, 20250, 31038, 67>>), job_title |-> PyNone,   \* "株式会社C"
                       description |-> PyNone])],
    [text |-> <<123, 34, 99, 111, 109, 112, 97, 110, 121, 95, 110, 97, 109, 101, 34, 58, 32, 34, 26666, 24335, 20250, 31038, 68, 34, 44, 32, 34, 112, 111, 115, 116, 101, 100, 95, 111, 114, 95, 117, 112, 100, 97, 116, 101, 100, 95, 97, 116, 34, 58, 32, 50, 48, 50, 53, 48, 49, 49, 53, 125>>,   \* '{"company_name": "株式会社D", "posted_or_updated_at": 20250115}'
     value |-> PyDict([company_name |-> PyStr(<<26666, 24335, 20250, 31038, 68>>),   \* "株式会社D"
                       posted_or_updated_at |-> PyInt(20250115)])]
>>

JsonSpace == {9, 10, 13, 32}

\* the text without the JSON white space around it
JsonTrim(text) ==
    LET keep == {k \in 1..Len(text) : text[k] \notin JsonSpace}
    IN IF keep = {} THEN <<>>
       ELSE SubSeq(text, CHOOSE k \in keep : \A m \in keep : k <= m,
                         CHOOSE k \in keep : \A m \in keep : m <= k)

\* json.loads(text): ok is FALSE where it raises JSONDecodeError
json_loads(text) ==
    LET found == {n \in 1..Len(JSON_DOCS) : JSON_DOCS[n].text = JsonTrim(text)}
    IN IF found = {} THEN [ok |-> FALSE, value |-> PyList(<<>>)]
       ELSE [ok |-> TRUE, value |-> JSON_DOCS[CHOOSE n \in found : TRUE].value]

\* the dict _parse_llm_response falls back to
PARSE_FALLBACK ==
    PyDict([dispatch_score |-> PyInt(50), urgency_score |-> PyInt(50),
            skill_match_score |-> PyInt(50), total_score |-> PyInt(50),
            reason |-> PyStr(<<35299, 26512, 12456, 12521, 12540>>),   \* "解析エラー"
            tags |-> PyList(<<>>)])

FENCE == <<96, 96, 96>>   \* "```"

\* StripFence removing the opening fence line only
StripFenceOpeningOnly(response_text) ==
    LET text == strip(response_text)
    IN IF startswith(text, FENCE)
       THEN join_lines(Tail(split_lines(text)))
       ELSE text

\* the text with, when it starts with a fence, every fence line removed
StripFence(response_text) ==
    LET text == strip(response_text)
    IN IF startswith(text, FENCE)
       THEN join_lines(SelectSeq(split_lines(text),
                                 LAMBDA l : ~startswith(strip(l), FENCE)))
       ELSE text

_parse_llm_response(response_text) ==
    LET loaded == json_loads(StripFence(response_text))
    IN IF loaded.ok THEN loaded.value ELSE PARSE_FALLBACK

\* parsed.get(key, default)
DictGet(parsed, key, default) ==
    IF key \in DOMAIN parsed.value THEN parsed.value[key] ELSE default

\* calculate_llm_score(job, client), the client answering with `outcome`:
\* the request raising, or a message with its content blocks.  raised is TRUE
\* where the function raises: the request failed, the message has no content
\* block, or the parsed value is no dict and has no get.
calculate_llm_score(j, outcome) ==
    IF outcome.raises \/ outcome.content = <<>>
    THEN [raised |-> TRUE, result |-> <<>>]
    ELSE LET response_text == outcome.content[1]
             parsed == _parse_llm_response(response_text)
         IN IF parsed.type # "dict"
            THEN [raised |-> TRUE, result |-> <<>>]
            ELSE [raised |-> FALSE,
                  result |-> [dispatch_score |-> DictGet(parsed, "dispatch_score", PyInt(50)),
                              urgency_score |-> DictGet(parsed, "urgency_score", PyInt(50)),
                              skill_match_score |-> DictGet(parsed, "skill_match_score", PyInt(50)),
                              total_score |-> DictGet(parsed, "total_score", PyInt(50)),
                              reason |-> DictGet(parsed, "reason", PyStr(<<>>)),
                              tags |-> DictGet(parsed, "tags", PyList(<<>>)),
                              raw_response |-> response_text]]

(***************************************************************************)
(* Inputs                                                                  *)
(***************************************************************************)

\* a RawJob (raw_html, which no pipeline function reads, is left out)
RawJob(company_name, job_title, description, location, employment_type) ==
    [source |-> "herp",
     company_name |-> company_name,
     job_title |-> job_title,
     url |-> <<104, 116, 116, 112, 115, 58, 47, 47, 101, 120, 97, 109, 112, 108, 101, 46, 99, 111, 109, 47, 49, 32>>,   \* "https://example.com/1 "
     posted_date |-> None,
     description |-> description,
     location |-> location,
     employment_type |-> employment_type]

\* the texts made of at most n fragments, written one after the other
RECURSIVE Texts(_, _)
Texts(frags, n) ==
    IF n = 0 THEN {<<>>}
    ELSE LET shorter == Texts(frags, n - 1)
         IN shorter \cup {t \o f : t \in shorter, f \in frags}

\* the jobs of the self-tests of score.py and normalize.py and of the
\* end-to-end example
SampleJobs == {
    RawJob(<<26666, 24335, 20250, 31038, 12486, 12473, 12488>>, <<85, 73, 47, 85, 88, 12487, 12470, 12452, 12490, 12540>>, <<70, 105, 103, 109, 97, 12434, 20351, 12387, 12383, 12487, 12470, 12452, 12531, 12471, 12473, 12486, 12512, 12398, 27083, 31689>>, <<12501, 12523, 12522, 12514, 12540, 12488>>, <<26989, 21209, 22996, 35351>>),   \* "株式会社テスト", "UI/UXデザイナー", "Figmaを使ったデザインシステムの構築", "フルリモート", "業務委託"
    RawJob(<<26666, 24335, 20250, 31038, 12486, 12473, 12488>>, <<85, 73, 47, 85, 88, 12487, 12470, 12452, 12490, 12540>>, <<70, 105, 103, 109, 97, 12434, 20351, 12387, 12383, 12487, 12470, 12452, 12531, 12471, 12473, 12486, 12512, 12398, 27083, 31689, 12290, 24180, 21454, 54, 48, 48, 19975, 12316, 57, 48, 48, 19975, 20870, 12290, 12501, 12523, 12522, 12514, 12540, 12488, 21487, 12290>>, <<26481, 20140, 37117, 28171, 35895, 21306>>, <<26989, 21209, 22996, 35351>>),   \* "株式会社テスト", "UI/UXデザイナー", "Figmaを使ったデザインシステムの構築。年収600万〜900万円。フルリモート可。", "東京都渋谷区", "業務委託"
    RawJob(<<26666, 24335, 20250, 31038, 12486, 12473, 12488, 50>>, <<12464, 12521, 12501, 12451, 12483, 12463, 12487, 12470, 12452, 12490, 12540>>, <<12496, 12490, 12540, 24195, 21578, 12398, 21046, 20316, 12290, 80, 104, 111, 116, 111, 115, 104, 111, 112, 12289, 73, 108, 108, 117, 115, 116, 114, 97, 116, 111, 114, 24517, 38920, 12290>>, <<26481, 20140, 37117, 28207, 21306>>, <<27491, 31038, 21729>>),   \* "株式会社テスト2", "グラフィックデザイナー", "バナー広告の制作。Photoshop、Illustrator必須。", "東京都港区", "正社員"
    RawJob(<<26666, 24335, 20250, 31038, 12486, 12473, 12488, 51>>, <<12501, 12525, 12531, 12488, 12456, 12531, 12489, 12456, 12531, 12472, 12491, 12450>>, <<82, 101, 97, 99, 116, 47, 84, 121, 112, 101, 83, 99, 114, 105, 112, 116, 12391, 12398, 85, 73, 23455, 35013, 12290, 36913, 50, 20986, 31038, 12398, 12495, 12452, 12502, 12522, 12483, 12489, 21220, 21209, 12290>>, <<>>, <<>>)   \* "株式会社テスト3", "フロントエンドエンジニア", "React/TypeScriptでのUI実装。週2出社のハイブリッド勤務。", "", ""
}

\* --- inputs of the rule score ---
MaxScoreFrags == 2

ScoreTitles == {
    <<>>,   \* ""
    <<85, 73, 12487, 12470, 12452, 12490, 12540>>,   \* "UIデザイナー"
    <<85, 73, 47, 85, 88, 12487, 12470, 12452, 12490, 12540>>,   \* "UI/UXデザイナー"
    <<12471, 12491, 12450, 85, 88, 12487, 12470, 12452, 12490, 12540>>,   \* "シニアUXデザイナー"
    <<117, 105, 47, 117, 120, 12487, 12470, 12452, 12490, 12540, 47, 12503, 12525, 12480, 12463, 12488, 12487, 12470, 12452, 12490, 12540>>,   \* "ui/uxデザイナー/プロダクトデザイナー"
    <<12464, 12521, 12501, 12451, 12483, 12463, 12487, 12470, 12452, 12490, 12540>>,   \* "グラフィックデザイナー"
    <<12501, 12525, 12531, 12488, 12456, 12531, 12489, 12456, 12531, 12472, 12491, 12450>>   \* "フロントエンドエンジニア"
}

ScoreFrags == {
    <<70, 105, 103, 109, 97>>,   \* "Figma"
    <<70, 73, 71, 77, 65, 12392, 12487, 12470, 12452, 12531, 12471, 12473, 12486, 12512>>,   \* "FIGMAとデザインシステム"
    <<85, 88, 12522, 12469, 12540, 12481, 12539, 12518, 12540, 12470, 12540, 12452, 12531, 12479, 12499, 12517, 12540>>,   \* "UXリサーチ・ユーザーインタビュー"
    <<12503, 12525, 12488, 12479, 12452, 12500, 12531, 12464>>,   \* "プロトタイピング"
    <<12496, 12490, 12540>>,   \* "バナー"
    <<24195, 21578, 12487, 12470, 12452, 12531, 12392, 68, 84, 80>>,   \* "広告デザインとDTP"
    <<21360, 21047, 12481, 12521, 12471>>,   \* "印刷チラシ"
    <<84, 121, 112, 101, 83, 99, 114, 105, 112, 116>>,   \* "TypeScript"
    <<22312, 23429, 21220, 21209, 79, 75>>   \* "在宅勤務OK"
}

ScoreLocations == {
    <<>>,   \* ""
    <<12501, 12523, 12522, 12514, 12540, 12488>>,   \* "フルリモート"
    <<26481, 20140, 40, 12522, 12514, 12540, 12488, 21487, 47, 72, 121, 98, 114, 105, 100, 41>>   \* "東京(リモート可/Hybrid)"
}

ScoreEmployments == {
    <<>>,   \* ""
    <<26989, 21209, 22996, 35351>>,   \* "業務委託"
    <<27491, 31038, 21729>>,   \* "正社員"
    <<22865, 32004, 31038, 21729, 40, 26989, 21209, 22996, 35351, 41>>   \* "契約社員(業務委託)"
}

ScoreJobs ==
    SampleJobs \cup
    {RawJob(<<26666, 24335, 20250, 31038, 12486, 12473, 12488>>, t, d, l, e) :   \* "株式会社テスト"
        t \in ScoreTitles, d \in Texts(ScoreFrags, MaxScoreFrags),
        l \in ScoreLocations, e \in ScoreEmployments}

\* --- inputs of the normalizer: one family of jobs per inferred field ---
MaxSkillFrags == 2
MaxEmpFrags == 2
MaxRemoteFrags == 2
MaxCatFrags == 2
MaxCompFrags == 2

SkillTitles == {<<>>, <<65, 100, 111, 98, 101>>, <<85, 73, 12487, 12470, 12452, 12490, 12540, 40, 70, 105, 103, 109, 97, 41>>}   \* "", "Adobe", "UIデザイナー(Figma)"

SkillFrags == {
    <<102, 105, 103, 109, 97>>,   \* "figma"
    <<70, 73, 71, 77, 65>>,   \* "FIGMA"
    <<12501, 12451, 12464, 12510>>,   \* "フィグマ"
    <<88, 68>>,   \* "XD"
    <<97, 100, 111, 98, 101, 120, 100, 32>>,   \* "adobexd "
    <<90, 101, 112, 108, 105, 110, 47>>,   \* "Zeplin/"
    <<12473, 12465, 12483, 12481>>,   \* "スケッチ"
    <<83, 107, 101, 116, 99, 104>>,   \* "Sketch"
    <<12518, 12540, 12470, 12499, 12522, 12486, 12451, 12486, 12473, 12488>>,   \* "ユーザビリティテスト"
    <<68, 101, 115, 105, 103, 110, 32, 83, 121, 115, 116, 101, 109>>   \* "Design System"
}

SkillJobs ==
    {RawJob(<<26666, 24335, 20250, 31038, 12486, 12473, 12488>>, t, d, <<>>, <<>>) :   \* "株式会社テスト", "", ""
        t \in SkillTitles, d \in Texts(SkillFrags, MaxSkillFrags)}

EmpRawTypes == {<<>>, <<32>>, <<27491, 31038, 21729>>, <<22065, 35351>>, <<67, 111, 110, 116, 114, 97, 99, 116>>, <<27966, 36963, 31038, 21729>>}   \* "", " ", "正社員", "嘱託", "Contract", "派遣社員"

EmpFrags == {
    <<12501, 12522, 12540, 12521, 12531, 12473, 27475, 36814>>,   \* "フリーランス歓迎"
    <<27491, 31038, 21729, 30331, 29992, 12354, 12426>>,   \* "正社員登用あり"
    <<80, 97, 114, 116, 45, 84, 105, 109, 101>>,   \* "Part-Time"
    <<12452, 12531, 12479, 12540, 12531>>,   \* "インターン"
    <<22996, 35351>>   \* "委託"
}

EmpJobs ==
    {RawJob(<<26666, 24335, 20250, 31038, 12486, 12473, 12488>>, <<12487, 12470, 12452, 12490, 12540>>, d, <<>>, e) :   \* "株式会社テスト", "デザイナー", ""
        e \in EmpRawTypes, d \in Texts(EmpFrags, MaxEmpFrags)}

RemoteLocations == {<<>>, <<32, 26481, 20140, 37117, 28171, 35895, 21306>>, <<102, 117, 108, 108>>, <<70, 117, 108, 108, 95, 82, 101, 109, 111, 116, 101>>, <<20986, 31038>>}   \* "", " 東京都渋谷区", "full", "Full_Remote", "出社"

RemoteFrags == {
    <<12501, 12523>>,   \* "フル"
    <<12522, 12514, 12540, 12488, 21487>>,   \* "リモート可"
    <<114, 101, 109, 111, 116, 101>>,   \* "remote"
    <<12495, 12452, 12502, 12522, 12483, 12489>>,   \* "ハイブリッド"
    <<36913, 50>>,   \* "週2"
    <<20986, 31038, 12354, 12426>>,   \* "出社あり"
    <<22312, 23429, 21220, 21209, 21487>>   \* "在宅勤務可"
}

RemoteJobs ==
    {RawJob(<<26666, 24335, 20250, 31038, 12486, 12473, 12488>>, <<12487, 12470, 12452, 12490, 12540>>, d, l, <<>>) :   \* "株式会社テスト", "デザイナー", ""
        l \in RemoteLocations, d \in Texts(RemoteFrags, MaxRemoteFrags)}

CatTitles == {
    <<>>,   \* ""
    <<85, 73, 47, 85, 88, 12487, 12470, 12452, 12490, 12540>>,   \* "UI/UXデザイナー"
    <<12464, 12521, 12501, 12451, 12483, 12463, 12487, 12470, 12452, 12490, 12540>>,   \* "グラフィックデザイナー"
    <<85, 73, 12456, 12531, 12472, 12491, 12450>>,   \* "UIエンジニア"
    <<87, 101, 98, 12467, 12540, 12480, 12540, 32>>,   \* "Webコーダー "
    <<21942, 26989>>   \* "営業"
}

CatFrags == {
    <<12496, 12490, 12540>>,   \* "バナー"
    <<85, 73, 85, 88>>,   \* "UIUX"
    <<12501, 12525, 12531, 12488, 12456, 12531, 12489>>,   \* "フロントエンド"
    <<68, 84, 80>>,   \* "DTP"
    <<117, 105>>,   \* "ui"
    <<47, 117, 120>>   \* "/ux"
}

CatJobs ==
    {RawJob(<<32, 26666, 24335, 20250, 31038, 12486, 12473, 12488, 32>>, t, d, <<>>, <<>>) :   \* " 株式会社テスト ", "", ""
        t \in CatTitles, d \in Texts(CatFrags, MaxCatFrags)}

\* one compensation phrase: head, number, unit, separator, number, unit
CompHeads == {<<>>, <<24180, 21454>>, <<26376, 21454>>, <<26376>>}   \* "", "年収", "月収", "月"
CompNumbers == {<<53, 48>>, <<55, 48>>, <<56, 48>>, <<49, 48, 48>>, <<53, 48, 48>>, <<56, 48, 48>>, <<51, 48, 48, 48>>, <<51, 48, 48, 49>>, <<49, 50, 51, 52, 53>>}   \* "50", "70", "80", "100", "500", "800", "3000", "3001", "12345"
CompUnits == {<<>>, <<19975>>, <<19975, 20870>>}   \* "", "万", "万円"
CompSeps == {<<12316>>, <<45>>, <<32, 126, 32>>}   \* "〜", "-", " ~ "

CompPhrases ==
    {h \o a \o u \o s \o b \o v :
        h \in CompHeads, a \in CompNumbers, u \in CompUnits,
        s \in CompSeps, b \in CompNumbers, v \in CompUnits}

\* descriptions with several compensation phrases
CompFrags == {
    <<24180, 21454, 53, 48, 48, 48, 19975, 12316, 54, 48, 48, 48, 19975>>,   \* "年収5000万〜6000万"
    <<26376, 21454, 53, 48, 19975, 12316, 55, 48, 19975>>,   \* "月収50万〜70万"
    <<54, 48, 48, 19975, 20870, 12316, 57, 48, 48, 19975, 20870>>,   \* "600万円〜900万円"
    <<24180, 21454, 57, 48, 48, 12316, 54, 48, 48, 19975>>,   \* "年収900〜600万"
    <<26376, 21454, 51, 48, 48, 19975, 45, 52, 48, 48, 19975>>,   \* "月収300万-400万"
    <<24180, 21454, 65301, 65296, 65296, 19975, 65374, 65304, 65296, 65296, 19975>>,   \* "年収５００万～８００万"
    <<12289>>   \* "、"
}

CompJobs ==
    {RawJob(<<26666, 24335, 20250, 31038, 12486, 12473, 12488>>, <<12487, 12470, 12452, 12490, 12540>>, d, <<>>, <<>>) :   \* "株式会社テスト", "デザイナー", "", ""
        d \in CompPhrases \cup Texts(CompFrags, MaxCompFrags)}

NormJobs == SampleJobs \cup SkillJobs \cup EmpJobs \cup RemoteJobs \cup CatJobs \cup CompJobs

\* the score argument of normalize
ScoreArgs == {SCORE_MIN, SCORE_MAX}

(***************************************************************************)
(* Specifications of the pure functions: a job is drawn, the function is   *)
(* called with it, and its return value is kept.                           *)
(***************************************************************************)

Idle ==
    /\ caller = "direct"
    /\ LLM_AVAILABLE = FALSE
    /\ api_key = FALSE
    /\ client_ok = FALSE
    /\ top = None
    /\ raw_jobs = <<>>
    /\ use_llm = FALSE
    /\ llm_limit = None
    /\ llm_client = "None"
    /\ i = 0
    /\ results = <<>>
    /\ llm_calls = <<>>
    /\ saved = None
    /\ file_lines = <<>>

pipeline_vars == <<caller, LLM_AVAILABLE, api_key, client_ok, top, raw_jobs, use_llm,
                   llm_limit, llm_client, i, results, llm_calls, saved, file_lines>>

InitScore ==
    /\ job \in ScoreJobs
    /\ ret = <<>>
    /\ pc = "call"
    /\ Idle

\* rule_score = calculate_score(raw)
CallCalculateScore ==
    /\ pc = "call"
    /\ ret' = calculate_score(job)
    /\ pc' = "return"
    /\ UNCHANGED <<job, pipeline_vars>>

NextScore == CallCalculateScore

SpecScore == InitScore /\ [][NextScore]_vars

InitNormalize ==
    /\ job \in NormJobs
    /\ ret = <<>>
    /\ pc = "call"
    /\ Idle

\* norm_result = normalize(raw, score)
CallNormalize ==
    /\ pc = "call"
    /\ \E score \in ScoreArgs : ret' = normalize(job, score)
    /\ pc' = "return"
    /\ UNCHANGED <<job, pipeline_vars>>

\* normalize(raw, score) called once more with the same arguments
CallNormalizeAgain ==
    /\ pc = "return"
    /\ ret' = normalize(job, ret.score)
    /\ pc' = "again"
    /\ UNCHANGED <<job, pipeline_vars>>

NextNormalize ==
    \/ CallNormalize
    \/ CallNormalizeAgain

SpecNormalize == InitNormalize /\ [][NextNormalize]_vars

(***************************************************************************)
(* src/src/cli.py                                                          *)
(***************************************************************************)

\* the output dict process_jobs builds from a NormalizedResult; posted_date is
\* held as its ISO text already
OutputDict(norm_result) ==
    [source |-> norm_result.source,
     company_name |-> norm_result.company_name,
     job_title |-> norm_result.job_title,
     url |-> norm_result.url,
     posted_date |-> norm_result.posted_date,
     description |-> norm_result.description,
     location |-> norm_result.location,
     employment_type |-> norm_result.employment_type,
     score |-> PyInt(norm_result.score),
     skills |-> norm_result.skills,
     category |-> norm_result.category,
     remote_type |-> norm_result.remote_type,
     comp_min |-> norm_result.comp_min,
     comp_max |-> norm_result.comp_max]

\* WithLlmResult blending the model's score with the rule score
WithLlmResultBlended(output, llm_result) ==
    [output EXCEPT !.score =
        IF llm_result.total_score.type = "int"
        THEN PyInt((output.score.value + llm_result.total_score.value) \div 2)
        ELSE llm_result.total_score]
    @@ [llm_score |-> llm_result.total_score,
        llm_dispatch_score |-> llm_result.dispatch_score,
        llm_urgency_score |-> llm_result.urgency_score,
        llm_skill_match_score |-> llm_result.skill_match_score,
        llm_reason |-> llm_result.reason,
        llm_tags |-> llm_result.tags]

\* the output dict with the fields of an LLMScoreResult added and the score
\* overwritten
WithLlmResult(output, llm_result) ==
    [output EXCEPT !.score = llm_result.total_score]
    @@ [llm_score |-> llm_result.total_score,
        llm_dispatch_score |-> llm_result.dispatch_score,
        llm_urgency_score |-> llm_result.urgency_score,
        llm_skill_match_score |-> llm_result.skill_match_score,
        llm_reason |-> llm_result.reason,
        llm_tags |-> llm_result.tags]

\* LlmAttempted giving up rescoring after the first call that raised
LlmAttemptedUntilFailure ==
    /\ use_llm
    /\ llm_client # "None"
    /\ IF llm_limit = None THEN TRUE ELSE i < llm_limit[1]
    /\ \A c \in 1..Len(llm_calls) : ~llm_calls[c].raised

\* LlmAttempted with the limit compared by <=
LlmAttemptedLimitInclusive ==
    /\ use_llm
    /\ llm_client # "None"
    /\ IF llm_limit = None THEN TRUE ELSE i <= llm_limit[1]

\* LlmAttempted without the test of llm_client
LlmAttemptedWithoutClient ==
    /\ use_llm
    /\ IF llm_limit = None THEN TRUE ELSE i < llm_limit[1]

\* LlmAttempted with the limit counting the calls that succeeded
LlmAttemptedBudgetOfSuccesses ==
    /\ use_llm
    /\ llm_client # "None"
    /\ IF llm_limit = None THEN TRUE
       ELSE Cardinality({c \in 1..Len(llm_calls) : ~llm_calls[c].raised}) < llm_limit[1]

\* use_llm and llm_client and (llm_limit is None or i < llm_limit)
LlmAttempted ==
    /\ use_llm
    /\ llm_client # "None"
    /\ IF llm_limit = None THEN TRUE ELSE i < llm_limit[1]

\* RuleOutput with one skills list shared by the records: the skills of the
\* record made last come before those of this one
RuleOutputSharedSkills(raw) ==
    LET output == OutputDict(normalize(raw, calculate_score(raw)))
    IN IF results = <<>> THEN output
       ELSE [output EXCEPT !.skills = results[Len(results)].skills \o @]

\* the loop of process_jobs, steps 1, 2 and 4: the rule score, the normalized
\* record and the output dict made of it
RuleOutput(raw) == OutputDict(normalize(raw, calculate_score(raw)))

\* the loop of process_jobs, step 3 and the final if: `scored` is what the
\* call of calculate_llm_score came to; when it raised, llm_result stays None
\* and the output dict is left as it is
LlmOutput(output, scored) ==
    IF scored.raised THEN output ELSE WithLlmResult(output, scored.result)

\* x["score"] < y["score"]
KeyLess(a, b) ==
    IF a.type = "int" THEN a.value < b.value ELSE StrLess(a.value, b.value)

\* whether a < b raises TypeError
Incomparable(a, b) == a.type # b.type \/ a.type \notin {"int", "str"}

\* list.sort raises when two of the keys it has to compare cannot be compared
SortRaises(batch) ==
    \E a, b \in 1..Len(batch) : a < b /\ Incomparable(batch[a].score, batch[b].score)

\* SortByScoreDesc putting a record before the records of equal score
RECURSIVE SortByScoreDescUnstable(_)
SortByScoreDescUnstable(batch) ==
    IF Len(batch) <= 1 THEN batch
    ELSE LET sorted == SortByScoreDescUnstable(SubSeq(batch, 1, Len(batch) - 1))
             x == batch[Len(batch)]
             not_higher == {k \in 1..Len(sorted) : ~KeyLess(x.score, sorted[k].score)}
             pos == IF not_higher = {} THEN Len(sorted) + 1
                    ELSE CHOOSE k \in not_higher : \A m \in not_higher : k <= m
         IN SubSeq(sorted, 1, pos - 1) \o <<x>> \o SubSeq(sorted, pos, Len(sorted))

\* sorted by score, highest first; records with equal scores keep their order
RECURSIVE SortByScoreDesc(_)
SortByScoreDesc(batch) ==
    IF Len(batch) <= 1 THEN batch
    ELSE LET sorted == SortByScoreDesc(SubSeq(batch, 1, Len(batch) - 1))
             x == batch[Len(batch)]
             lower_ones == {k \in 1..Len(sorted) : KeyLess(sorted[k].score, x.score)}
             pos == IF lower_ones = {} THEN Len(sorted) + 1
                    ELSE CHOOSE k \in lower_ones : \A m \in lower_ones : k <= m
         IN SubSeq(sorted, 1, pos - 1) \o <<x>> \o SubSeq(sorted, pos, Len(sorted))

\* batch[:n]
SliceTo(batch, n) ==
    IF n >= 0 THEN SubSeq(batch, 1, Min2(n, Len(batch)))
    ELSE SubSeq(batch, 1, Max2(Len(batch) + n, 0))

(***************************************************************************)
(* Inputs of the pipeline                                                  *)
(***************************************************************************)

MaxJobs == 2
MaxLimit == 1
MaxTop == 1

\* three jobs: the rule score of the first is 100, that of the other two 28
PipelineJobs == {
    RawJob(<<32, 26666, 24335, 20250, 31038, 65, 32>>, <<85, 73, 47, 85, 88, 12487, 12470, 12452, 12490, 12540>>, <<70, 105, 103, 109, 97, 12434, 20351, 12387, 12383, 12487, 12470, 12452, 12531, 12471, 12473, 12486, 12512, 12398, 27083, 31689, 12290, 24180, 21454, 54, 48, 48, 19975, 12316, 57, 48, 48, 19975, 20870, 12290>>, <<12501, 12523, 12522, 12514, 12540, 12488>>, <<26989, 21209, 22996, 35351>>),   \* " 株式会社A ", "UI/UXデザイナー", "Figmaを使ったデザインシステムの構築。年収600万〜900万円。", "フルリモート", "業務委託"
    RawJob(<<26666, 24335, 20250, 31038, 67>>, <<12487, 12470, 12452, 12490, 12540>>, <<84, 121, 112, 101, 83, 99, 114, 105, 112, 116, 12391, 12398, 85, 73, 23455, 35013>>, <<104, 121, 98, 114, 105, 100>>, <<>>),   \* "株式会社C", "デザイナー", "TypeScriptでのUI実装", "hybrid", ""
    RawJob(<<26666, 24335, 20250, 31038, 68>>, <<12487, 12470, 12452, 12490, 12540>>, <<12467, 12540, 12487, 12451, 12531, 12464>>, <<22312, 23429, 21220, 21209>>, <<>>)   \* "株式会社D", "デザイナー", "コーディング", "在宅勤務", ""
}

\* the batches of at most n jobs
RECURSIVE Batches(_)
Batches(n) ==
    IF n = 0 THEN {<<>>}
    ELSE LET shorter == Batches(n - 1)
         IN shorter \cup {Append(b, j) : b \in shorter, j \in PipelineJobs}

\* None, or an integer from 0 to n
OptionalUpTo(n) == {None} \cup {Some(k) : k \in 0..n}

\* what a request to the external model comes to
ApiError == [raises |-> TRUE, content |-> <<>>]
Message(content) == [raises |-> FALSE, content |-> content]

LlmOutcomes == {
    ApiError,
    Message(<<>>),
    Message(<<JSON_DOCS[1].text>>),
    Message(<<<<96, 96, 96, 106, 115, 111, 110>> \o <<10>> \o JSON_DOCS[1].text \o <<10>> \o FENCE>>),   \* "```json"
    Message(<<FENCE \o <<10>> \o JSON_DOCS[1].text \o <<10>> \o FENCE \o <<10>>>>),
    Message(<<JSON_DOCS[2].text>>),
    Message(<<JSON_DOCS[3].text>>),
    Message(<<JSON_DOCS[4].text>>),
    Message(<<JSON_DOCS[5].text>>),
    Message(<<<<30003, 12375, 35379, 12354, 12426, 12414, 12379, 12435, 12364, 12289, 35413, 20385, 12391, 12365, 12414, 12379, 12435, 12290>>>>),   \* "申し訳ありませんが、評価できません。"
    Message(<<<<32080, 26524, 58>> \o <<10>> \o FENCE \o <<10>> \o JSON_DOCS[1].text \o <<10>> \o FENCE>>)   \* "結果:"
}

\* RuleOutput of each job of the batches, computed once
RuleOutputs == [raw \in PipelineJobs |-> RuleOutput(raw)]

\* how the run is started and what its environment provides
EnvCases == {
    [caller |-> "main", use_llm |-> FALSE, LLM_AVAILABLE |-> TRUE, api_key |-> TRUE, client_ok |-> TRUE],
    [caller |-> "main", use_llm |-> TRUE, LLM_AVAILABLE |-> FALSE, api_key |-> FALSE, client_ok |-> FALSE],
    [caller |-> "main", use_llm |-> TRUE, LLM_AVAILABLE |-> TRUE, api_key |-> FALSE, client_ok |-> FALSE],
    [caller |-> "main", use_llm |-> TRUE, LLM_AVAILABLE |-> TRUE, api_key |-> TRUE, client_ok |-> FALSE],
    [caller |-> "main", use_llm |-> TRUE, LLM_AVAILABLE |-> TRUE, api_key |-> TRUE, client_ok |-> TRUE],
    [caller |-> "direct", use_llm |-> FALSE, LLM_AVAILABLE |-> TRUE, api_key |-> TRUE, client_ok |-> TRUE],
    [caller |-> "direct", use_llm |-> TRUE, LLM_AVAILABLE |-> FALSE, api_key |-> FALSE, client_ok |-> FALSE],
    [caller |-> "direct", use_llm |-> TRUE, LLM_AVAILABLE |-> TRUE, api_key |-> TRUE, client_ok |-> FALSE],
    [caller |-> "direct", use_llm |-> TRUE, LLM_AVAILABLE |-> TRUE, api_key |-> TRUE, client_ok |-> TRUE]
}

(***************************************************************************)
(* The pipeline: main of cli.py, or process_jobs called by itself          *)
(***************************************************************************)

Init ==
    /\ job = <<>>
    /\ ret = <<>>
    /\ \E env \in EnvCases :
        /\ caller = env.caller
        /\ use_llm = env.use_llm
        /\ LLM_AVAILABLE = env.LLM_AVAILABLE
        /\ api_key = env.api_key
        /\ client_ok = env.client_ok
        /\ pc = IF env.caller = "main" THEN "main" ELSE "process_jobs"
    /\ raw_jobs \in Batches(MaxJobs)
    /\ llm_limit \in OptionalUpTo(MaxLimit)
    /\ top = None
    /\ llm_client = "None"
    /\ i = 0
    /\ results = <<>>
    /\ llm_calls = <<>>
    /\ saved = None
    /\ file_lines = <<>>

env_vars == <<job, ret, caller, LLM_AVAILABLE, api_key, client_ok, raw_jobs, llm_limit, file_lines>>

\* main: rescoring is dropped when the SDK or the API key is missing; then
\* process_jobs is called
MainCheckLlm ==
    /\ pc = "main"
    /\ use_llm' = (use_llm /\ LLM_AVAILABLE /\ api_key)
    /\ pc' = "process_jobs"
    /\ UNCHANGED <<env_vars, top, llm_client, i, results, llm_calls, saved>>

\* process_jobs: the client is built before the loop; rescoring is dropped
\* when its constructor raises
CreateClient ==
    /\ pc = "process_jobs"
    /\ IF use_llm /\ LLM_AVAILABLE
       THEN IF client_ok
            THEN llm_client' = "client" /\ UNCHANGED use_llm
            ELSE use_llm' = FALSE /\ UNCHANGED llm_client
       ELSE UNCHANGED <<use_llm, llm_client>>
    /\ pc' = "loop"
    /\ UNCHANGED <<env_vars, top, i, results, llm_calls, saved>>

\* process_jobs: one pass of the loop
ProcessJob ==
    /\ pc = "loop"
    /\ i < Len(raw_jobs)
    /\ LET raw == raw_jobs[i + 1]
           output == RuleOutputs[raw]
       IN \/ /\ LlmAttempted
             /\ \E outcome \in LlmOutcomes :
                   LET scored == calculate_llm_score(raw, outcome)
                   IN /\ results' = Append(results, LlmOutput(output, scored))
                      /\ llm_calls' = Append(llm_calls, [index |-> i, raised |-> scored.raised])
          \/ /\ ~LlmAttempted
             /\ results' = Append(results, output)
             /\ UNCHANGED llm_calls
    /\ i' = i + 1
    /\ UNCHANGED <<env_vars, top, use_llm, llm_client, saved, pc>>

\* process_jobs: return results
ReturnResults ==
    /\ pc = "loop"
    /\ i = Len(raw_jobs)
    /\ pc' = IF caller = "main" THEN "sort" ELSE "returned"
    /\ UNCHANGED <<env_vars, top, use_llm, llm_client, i, results, llm_calls, saved>>

\* main: results.sort(key=score, reverse=True); a TypeError ends the run
SortResults ==
    /\ pc = "sort"
    /\ IF SortRaises(results)
       THEN pc' = "crashed" /\ UNCHANGED results
       ELSE pc' = "top" /\ results' = SortByScoreDesc(results)
    /\ UNCHANGED <<env_vars, top, use_llm, llm_client, i, llm_calls, saved>>

\* main: if args.top: results = results[:args.top]; the value given on the
\* command line is drawn where it is read
TruncateTop ==
    /\ pc = "top"
    /\ \E n \in OptionalUpTo(MaxTop) :
          /\ top' = n
          /\ results' = IF n # None /\ n[1] # 0 THEN SliceTo(results, n[1]) ELSE results
    /\ pc' = "save"
    /\ UNCHANGED <<env_vars, use_llm, llm_client, i, llm_calls, saved>>

\* main: save_results(results, args.output)
SaveResults ==
    /\ pc = "save"
    /\ saved' = Some(results)
    /\ pc' = "done"
    /\ UNCHANGED <<env_vars, top, use_llm, llm_client, i, results, llm_calls>>

Next ==
    \/ MainCheckLlm
    \/ CreateClient
    \/ ProcessJob
    \/ ReturnResults
    \/ SortResults
    \/ TruncateTop
    \/ SaveResults

Spec == Init /\ [][Next]_vars


(***************************************************************************)
(* src/src/pipeline/llm_score.py: calculate_llm_score_batch                *)
(***************************************************************************)

\* the LLMScoreResult calculate_llm_score_batch records for a call that
\* raised; its reason is the text below followed by the exception's message
BATCH_ERROR_RESULT ==
    [dispatch_score |-> PyInt(0), urgency_score |-> PyInt(0),
     skill_match_score |-> PyInt(0), total_score |-> PyInt(0),
     reason |-> PyStr(<<65, 80, 73, 12456, 12521, 12540, 58, 32>>),   \* "APIエラー: "
     tags |-> PyList(<<>>),
     raw_response |-> <<>>]

\* jobs[:limit] if limit else jobs
TargetJobs(jobs, limit) ==
    IF limit # None /\ limit[1] # 0 THEN SliceTo(jobs, limit[1]) ELSE jobs

\* calculate_llm_score_batch(jobs, limit), the client answering the k-th
\* request with outcomes[k]: the list of (job, result) pairs
calculate_llm_score_batch(jobs, limit, outcomes) ==
    LET target_jobs == TargetJobs(jobs, limit)
    IN [k \in 1..Len(target_jobs) |->
           LET scored == calculate_llm_score(target_jobs[k], outcomes[k])
           IN [job |-> target_jobs[k],
               result |-> IF scored.raised THEN BATCH_ERROR_RESULT ELSE scored.result]]

(***************************************************************************)
(* Specification of the rescoring functions: calculate_llm_score is called *)
(* for a job, or calculate_llm_score_batch for a batch, and what the call  *)
(* came to is kept together with what the client answered.                 *)
(***************************************************************************)

\* the opening fence lines: without and with a language tag
FenceOpenings == {FENCE, <<96, 96, 96, 106, 115, 111, 110>>}   \* "```json"

\* the documents of JSON_DOCS that are objects of score fields
ObjectDocs == 1..4

\* the text wrapped in a fenced code block
Fenced(opening, text) == opening \o <<10>> \o text \o <<10>> \o FENCE

\* what the client answers a single request with
SingleOutcomes ==
    LlmOutcomes
    \cup {Message(<<JSON_DOCS[6].text>>), Message(<<JSON_DOCS[7].text>>)}
    \cup {Message(<<Fenced(opening, JSON_DOCS[d].text)>>) :
            opening \in FenceOpenings, d \in ObjectDocs}

\* what the client answers the requests of a batch with
BatchOutcomes == {
    ApiError,
    Message(<<JSON_DOCS[1].text>>),
    Message(<<JSON_DOCS[5].text>>),
    Message(<<<<30003, 12375, 35379, 12354, 12426, 12414, 12379, 12435, 12364, 12289, 35413, 20385, 12391, 12365, 12414, 12379, 12435, 12290>>>>)   \* "申し訳ありませんが、評価できません。"
}

\* the sequences of n outcomes of a batch
RECURSIVE OutcomeSeqs(_)
OutcomeSeqs(n) ==
    IF n = 0 THEN {<<>>}
    ELSE {Append(s, o) : s \in OutcomeSeqs(n - 1), o \in BatchOutcomes}

InitLlm ==
    /\ \/ job \in PipelineJobs /\ raw_jobs = <<>> /\ llm_limit = None
       \/ job = <<>> /\ raw_jobs \in Batches(MaxJobs) /\ llm_limit \in OptionalUpTo(MaxLimit)
    /\ ret = <<>>
    /\ pc = "call"
    /\ caller = "direct"
    /\ LLM_AVAILABLE = TRUE
    /\ api_key = TRUE
    /\ client_ok = TRUE
    /\ top = None
    /\ use_llm = TRUE
    /\ llm_client = "client"
    /\ i = 0
    /\ results = <<>>
    /\ llm_calls = <<>>
    /\ saved = None
    /\ file_lines = <<>>

\* calculate_llm_score(job, client)
CallCalculateLlmScore ==
    /\ pc = "call"
    /\ job # <<>>
    /\ \E outcome \in SingleOutcomes :
          ret' = [function |-> "calculate_llm_score",
                  outcomes |-> <<outcome>>,
                  value |-> calculate_llm_score(job, outcome)]
    /\ pc' = "return"
    /\ UNCHANGED <<job, pipeline_vars>>

\* calculate_llm_score_batch(jobs, limit)
CallCalculateLlmScoreBatch ==
    /\ pc = "call"
    /\ job = <<>>
    /\ \E outcomes \in OutcomeSeqs(Len(TargetJobs(raw_jobs, llm_limit))) :
          ret' = [function |-> "calculate_llm_score_batch",
                  outcomes |-> outcomes,
                  value |-> calculate_llm_score_batch(raw_jobs, llm_limit, outcomes)]
    /\ pc' = "return"
    /\ UNCHANGED <<job, pipeline_vars>>

NextLlm ==
    \/ CallCalculateLlmScore
    \/ CallCalculateLlmScoreBatch

SpecLlm == InitLlm /\ [][NextLlm]_vars

(***************************************************************************)
(* src/src/cli.py: load_raw_jobs                                           *)
(***************************************************************************)

\* bool(value)
Truthy(v) ==
    IF v.type = "NoneType" THEN FALSE
    ELSE IF v.type = "int" THEN v.value # 0
    ELSE IF v.type = "dict" THEN DOMAIN v.value # {}
    ELSE v.value # <<>>

\* the texts date.fromisoformat accepts among those of the input lines
ISO_DATES == {<<50, 48, 50, 53, 45, 48, 49, 45, 49, 53>>}   \* "2025-01-15"

\* date.fromisoformat(value): "ok" with the date, "ValueError" for a str in
\* no ISO format, "TypeError" for a value that is no str
date_fromisoformat(v) ==
    IF v.type # "str" THEN [outcome |-> "TypeError", date |-> None]
    ELSE IF v.value \in ISO_DATES THEN [outcome |-> "ok", date |-> Some(v.value)]
    ELSE [outcome |-> "ValueError", date |-> None]

\* the RawJob load_raw_jobs builds from a parsed line; a field holds whatever
\* value the line gives it, the dataclass converting nothing
RawJobFromData(data, posted_date) ==
    [source |-> DictGet(data, "source", PyStr(<<117, 110, 107, 110, 111, 119, 110>>)),   \* "unknown"
     company_name |-> DictGet(data, "company_name", PyStr(<<>>)),
     job_title |-> DictGet(data, "job_title", PyStr(<<>>)),
     url |-> DictGet(data, "url", PyStr(<<>>)),
     posted_date |-> posted_date,
     description |-> DictGet(data, "description", PyStr(<<>>)),
     location |-> DictGet(data, "location", PyStr(<<>>)),
     employment_type |-> DictGet(data, "employment_type", PyStr(<<>>)),
     raw_html |-> PyStr(<<>>)]

\* the body of the loop of load_raw_jobs for one line: "skip" for a blank
\* line or one json.loads rejects, "append" with the RawJob, "raise" for an
\* exception the function does not catch
LoadLine(raw_line) ==
    LET line == strip(raw_line)
        loaded == json_loads(line)
        data == loaded.value
        date_value == DictGet(data, "posted_or_updated_at", PyNone)
        parsed_date == date_fromisoformat(date_value)
    IN IF line = <<>> THEN [step |-> "skip", job |-> <<>>]
       ELSE IF ~loaded.ok THEN [step |-> "skip", job |-> <<>>]
       ELSE IF data.type # "dict" THEN [step |-> "raise", job |-> <<>>]
       ELSE IF ~Truthy(date_value)
            THEN [step |-> "append", job |-> RawJobFromData(data, None)]
       ELSE IF parsed_date.outcome = "TypeError" THEN [step |-> "raise", job |-> <<>>]
       ELSE [step |-> "append", job |-> RawJobFromData(data, parsed_date.date)]

MaxLines == 2

\* the lines an input file may hold
InputLines == {
    <<>>,
    <<32, 32, 10>>,   \* "  \n"
    JSON_DOCS[8].text \o <<10>>,
    JSON_DOCS[9].text \o <<10>>,
    JSON_DOCS[10].text \o <<10>>,
    JSON_DOCS[11].text \o <<10>>,
    JSON_DOCS[5].text \o <<10>>,
    <<123, 34, 99, 111, 109, 112, 97, 110, 121, 95, 110, 97, 109, 101, 34, 58, 32, 34, 26666, 24335, 20250, 31038, 69, 34, 10>>   \* '{"company_name": "株式会社E"\n'
}

\* the files of at most n lines
RECURSIVE Files(_)
Files(n) ==
    IF n = 0 THEN {<<>>}
    ELSE LET shorter == Files(n - 1)
         IN shorter \cup {Append(f, l) : f \in shorter, l \in InputLines}

InitLoad ==
    /\ file_lines \in Files(MaxLines)
    /\ job = <<>>
    /\ ret = <<>>
    /\ pc = "load"
    /\ caller = "direct"
    /\ LLM_AVAILABLE = FALSE
    /\ api_key = FALSE
    /\ client_ok = FALSE
    /\ top = None
    /\ raw_jobs = <<>>
    /\ use_llm = FALSE
    /\ llm_limit = None
    /\ llm_client = "None"
    /\ i = 0
    /\ results = <<>>
    /\ llm_calls = <<>>
    /\ saved = None

load_vars == <<job, caller, LLM_AVAILABLE, api_key, client_ok, top, raw_jobs, use_llm,
               llm_limit, llm_client, results, llm_calls, saved, file_lines>>

\* load_raw_jobs: one line of the file; ret holds the list jobs
ReadLine ==
    /\ pc = "load"
    /\ i < Len(file_lines)
    /\ LET done == LoadLine(file_lines[i + 1])
       IN /\ ret' = IF done.step = "append" THEN Append(ret, done.job) ELSE ret
          /\ pc' = IF done.step = "raise" THEN "crashed" ELSE "load"
    /\ i' = i + 1
    /\ UNCHANGED load_vars

\* load_raw_jobs: return jobs
ReturnJobs ==
    /\ pc = "load"
    /\ i = Len(file_lines)
    /\ pc' = "loaded"
    /\ UNCHANGED <<load_vars, ret, i>>

NextLoad ==
    \/ ReadLine
    \/ ReturnJobs

SpecLoad == InitLoad /\ [][NextLoad]_vars
(***************************************************************************)
(* process_jobs called several times in one process, rescoring disabled    *)
(***************************************************************************)

\* process_jobs(raw_jobs), use_llm and llm_limit at their defaults: no client
\* is built and the loop appends the output dict of each job in input order
process_jobs(jobs) == [k \in 1..Len(jobs) |-> RuleOutputs[jobs[k]]]

\* the number of calls made one after the other
MaxCalls == 2

\* i counts the calls that returned, results is the list the last of them
\* returned and ret the list returned by the call before it
InitBatches ==
    /\ job = <<>>
    /\ ret = <<>>
    /\ pc = "call"
    /\ raw_jobs \in Batches(MaxJobs)
    /\ caller = "direct"
    /\ LLM_AVAILABLE = FALSE
    /\ api_key = FALSE
    /\ client_ok = FALSE
    /\ top = None
    /\ use_llm = FALSE
    /\ llm_limit = None
    /\ llm_client = "None"
    /\ i = 0
    /\ results = <<>>
    /\ llm_calls = <<>>
    /\ saved = None
    /\ file_lines = <<>>

batch_vars == <<job, caller, LLM_AVAILABLE, api_key, client_ok, top, use_llm,
                llm_limit, llm_client, llm_calls, saved, file_lines>>

\* results = process_jobs(raw_jobs)
CallProcessJobs ==
    /\ pc = "call"
    /\ results' = process_jobs(raw_jobs)
    /\ i' = i + 1
    /\ pc' = "returned"
    /\ UNCHANGED <<raw_jobs, ret, batch_vars>>

\* the caller keeps the list and goes on to another batch
NextBatch ==
    /\ pc = "returned"
    /\ i < MaxCalls
    /\ raw_jobs' \in Batches(MaxJobs)
    /\ ret' = results
    /\ pc' = "call"
    /\ UNCHANGED <<results, i, batch_vars>>

NextBatches == CallProcessJobs \/ NextBatch

SpecBatches == InitBatches /\ [][NextBatches]_vars

(***************************************************************************)
(* Properties                                                              *)
(***************************************************************************)

\* pattern occurs in text, letter case ignored (stated on the characters, not
\* through lower)
OccursIgnoringCase(pattern, text) ==
    \E k \in 0..(Len(text) - Len(pattern)) :
        \A j \in 1..Len(pattern) : LowerChar(text[k + j]) = LowerChar(pattern[j])

\* some pattern of the list occurs in text
AnyOccurs(patterns, text) ==
    \E p \in 1..Len(patterns) : OccursIgnoringCase(patterns[p], text)

\* the k-th smallest element of a finite set of integers
Kth(S, k) == CHOOSE n \in S : Cardinality({m \in S : m < n}) = k - 1

Returned == pc = "return"

----------------------------------------------------------------------------
\* C1: calculate_score returns an integer s with 0 <= s <= 100 for every
\* RawJob, also when the sum of its components is above 100 or below 0.
C1_ScoreInRange ==
    Returned => ret \in 0..100

\* a job whose components add up to more than 100 was scored
C1_Witness ==
    /\ Returned
    /\ RawScore(job) > 100
    /\ ret = 100

----------------------------------------------------------------------------
\* C2: every record process_jobs emits has 0 <= score <= 100, also when
\* rescoring is enabled and the score was overwritten by the external model's
\* total_score, whatever value the response carries or omits.
C2_OutputScoreInRange ==
    \A k \in 1..Len(results) :
        results[k].score.type = "int" /\ results[k].score.value \in 0..100

----------------------------------------------------------------------------
\* C3: whenever compensation extraction returns a present pair,
\* comp_min <= comp_max, also for a range written with the larger number first.
C3_MinLeMax ==
    (Returned /\ ret.comp_min # None /\ ret.comp_max # None)
        => ret.comp_min[1] <= ret.comp_max[1]

----------------------------------------------------------------------------
\* C4: the result of compensation extraction is either (None, None) or a pair
\* of integers both in [100, 3000]; never exactly one of the two is present and
\* never is a present value outside [100, 3000], the x12 conversion included.
C4_BothOrNeitherInRange ==
    Returned =>
        \/ ret.comp_min = None /\ ret.comp_max = None
        \/ /\ ret.comp_min # None /\ ret.comp_max # None
           /\ ret.comp_min[1] \in 100..3000
           /\ ret.comp_max[1] \in 100..3000

\* a monthly range was converted and accepted
C4_Witness ==
    /\ Returned
    /\ job.description = <<26376, 21454, 53, 48, 19975, 12316, 55, 48, 19975>>   \* "月収50万〜70万"
    /\ ret.comp_min = Some(600)
    /\ ret.comp_max = Some(840)

----------------------------------------------------------------------------
\* C5: the skills list of a normalized record contains each canonical label at
\* most once, however many variants of the label, or repetitions of one
\* variant, occur in title + description.
C5_NoDuplicateSkills ==
    Returned =>
        \A a, b \in 1..Len(ret.skills) : a # b => ret.skills[a] # ret.skills[b]

\* two variants of one label occur in the description, and the label is listed
C5_Witness ==
    /\ Returned
    /\ job.job_title = <<>>
    /\ job.description = <<102, 105, 103, 109, 97, 12501, 12451, 12464, 12510>>   \* "figmaフィグマ"
    /\ ret.skills = <<<<70, 105, 103, 109, 97>>>>   \* "Figma"

----------------------------------------------------------------------------
\* C6: _extract_skills(text) returns exactly the canonical labels of
\* SKILL_DICTIONARY that have a variant occurring in text, case ignored, in
\* the dictionary's declared order whatever their positions in the text; the
\* empty text yields the empty list.
C6_SkillsExactInDictionaryOrder ==
    /\ _extract_skills(<<>>) = <<>>
    /\ Returned =>
        LET text == JoinSpace(job.job_title, job.description)
            hit == {n \in 1..Len(SKILL_DICTIONARY) :
                        AnyOccurs(SKILL_DICTIONARY[n].patterns, text)}
        IN /\ Len(ret.skills) = Cardinality(hit)
           /\ \A k \in 1..Len(ret.skills) :
                  ret.skills[k] = SKILL_DICTIONARY[Kth(hit, k)].skill_name

\* a later label's variant stands before an earlier label's variant, written in
\* capitals, and the labels are listed in dictionary order
C6_Witness ==
    /\ Returned
    /\ job.job_title = <<>>
    /\ job.description = <<90, 101, 112, 108, 105, 110, 47, 70, 73, 71, 77, 65>>   \* "Zeplin/FIGMA"
    /\ ret.skills = <<<<70, 105, 103, 109, 97>>, <<90, 101, 112, 108, 105, 110>>>>   \* "Figma", "Zeplin"

----------------------------------------------------------------------------
\* C7: category inference is total and priority-ordered: the result is one of
\* uiux, graphic, frontend_like, other; uiux whenever a uiux keyword occurs in
\* title + description, graphic whenever a graphic keyword occurs and no uiux
\* keyword, frontend_like whenever only frontend_like keywords occur, and
\* other exactly when no keyword of the three tables occurs.
CategoryOccurs(category, j) ==
    AnyOccurs(CategoryKeywordsOf(category), JoinSpace(j.job_title, j.description))

C7_CategoryPriority ==
    Returned =>
        LET u == CategoryOccurs("uiux", job)
            g == CategoryOccurs("graphic", job)
            f == CategoryOccurs("frontend_like", job)
        IN /\ ret.category \in {"uiux", "graphic", "frontend_like", "other"}
           /\ u => ret.category = "uiux"
           /\ (g /\ ~u) => ret.category = "graphic"
           /\ (f /\ ~u /\ ~g) => ret.category = "frontend_like"
           /\ ret.category = "other" <=> (~u /\ ~g /\ ~f)

\* keywords of all three tables occur, and the category is uiux
C7_Witness ==
    /\ Returned
    /\ CategoryOccurs("uiux", job)
    /\ CategoryOccurs("graphic", job)
    /\ CategoryOccurs("frontend_like", job)
    /\ ret.category = "uiux"

----------------------------------------------------------------------------
\* C8: remote-type inference over location + " " + description returns one of
\* full_remote, hybrid, remote_ok, office, unknown: the first type in that
\* order with a variant occurring, case ignored, and unknown exactly when no
\* variant of any type occurs.
RemoteOccurs(n, j) ==
    AnyOccurs(REMOTE_TYPE_PATTERNS[n].patterns, JoinSpace(j.location, j.description))

C8_RemoteTypeFirstInOrder ==
    /\ [n \in 1..4 |-> REMOTE_TYPE_PATTERNS[n].remote_type]
           = <<"full_remote", "hybrid", "remote_ok", "office">>
    /\ Returned =>
        LET hit == {n \in 1..4 : RemoteOccurs(n, job)}
        IN /\ ret.remote_type \in {"full_remote", "hybrid", "remote_ok", "office", "unknown"}
           /\ hit # {} => ret.remote_type = REMOTE_TYPE_PATTERNS[Kth(hit, 1)].remote_type
           /\ ret.remote_type = "unknown" <=> hit = {}

\* the location alone decides, in capitals, and an office variant occurs too
C8_Witness ==
    /\ Returned
    /\ job.location = <<70, 117, 108, 108, 95, 82, 101, 109, 111, 116, 101>>   \* "Full_Remote"
    /\ job.description = <<20986, 31038, 12354, 12426>>   \* "出社あり"
    /\ ret.remote_type = "full_remote"

----------------------------------------------------------------------------
\* C9: employment-type inference returns the first category, in table order,
\* with a variant occurring in employment_type + " " + description; when no
\* variant occurs it returns the raw employment-type string if that is
\* non-empty, and a sentinel if it is empty.
EmploymentOccurs(n, j) ==
    AnyOccurs(EMPLOYMENT_TYPE_PATTERNS[n].patterns,
              JoinSpace(j.employment_type, j.description))

ExpectedEmploymentType(j, sentinel) ==
    LET hit == {n \in 1..Len(EMPLOYMENT_TYPE_PATTERNS) : EmploymentOccurs(n, j)}
    IN IF hit # {} THEN EMPLOYMENT_TYPE_PATTERNS[Kth(hit, 1)].emp_type
       ELSE IF j.employment_type # <<>> THEN j.employment_type
       ELSE sentinel

\* C9 as stated: the sentinel is the literal "unknown"
C9_SentinelUnknown ==
    Returned => ret.employment_type = ExpectedEmploymentType(job, <<117, 110, 107, 110, 111, 119, 110>>)   \* "unknown"

\* C9 as amended: the sentinel is the literal "不明"
C9_SentinelFumei ==
    Returned => ret.employment_type = ExpectedEmploymentType(job, <<19981, 26126>>)   \* "不明"

\* an empty raw employment type, no variant in the description, the sentinel
C9_Witness ==
    /\ Returned
    /\ job.employment_type = <<>>
    /\ \A n \in 1..Len(EMPLOYMENT_TYPE_PATTERNS) : ~EmploymentOccurs(n, job)
    /\ ret.employment_type = <<19981, 26126>>   \* "不明"

----------------------------------------------------------------------------
\* C10: compensation extraction takes the patterns in the declared order
\* annual-with-prefix, bare range, monthly; the values the monthly pattern
\* captures are multiplied by 12 before the range check, those of the two
\* annual patterns are not.  "年収500万〜800万円" yields (500, 800),
\* "月収50万〜70万" yields (600, 840) and "年収50万〜80万" yields (None, None).
CompFactor(n) == IF n = 3 THEN 12 ELSE 1

CompMatches(n, text) == re_search(COMP_PATTERNS[n], text).ok

CompPair(n, text) ==
    LET m == re_search(COMP_PATTERNS[n], text)
    IN <<ParseInt(m.groups[1]) * CompFactor(n), ParseInt(m.groups[2]) * CompFactor(n)>>

CompPairInRange(n, text) ==
    /\ CompMatches(n, text)
    /\ \A k \in 1..2 : CompPair(n, text)[k] \in 100..3000

C10_FirstPatternAndFactor ==
    Returned =>
        LET d == job.description
            matching == {n \in 1..3 : CompMatches(n, d)}
            first == Kth(matching, 1)
        IN /\ (matching # {} /\ CompPairInRange(first, d)) =>
                  <<ret.comp_min, ret.comp_max>>
                      = <<Some(CompPair(first, d)[1]), Some(CompPair(first, d)[2])>>
           /\ ret.comp_min # None =>
                  \E n \in matching :
                      /\ <<ret.comp_min[1], ret.comp_max[1]>> = CompPair(n, d)
                      /\ \A m \in 1..(n - 1) : ~CompPairInRange(m, d)
           /\ d = <<24180, 21454, 53, 48, 48, 19975, 12316, 56, 48, 48, 19975, 20870>> =>   \* "年収500万〜800万円"
                  ret.comp_min = Some(500) /\ ret.comp_max = Some(800)
           /\ d = <<26376, 21454, 53, 48, 19975, 12316, 55, 48, 19975>> =>   \* "月収50万〜70万"
                  ret.comp_min = Some(600) /\ ret.comp_max = Some(840)
           /\ d = <<24180, 21454, 53, 48, 19975, 12316, 56, 48, 19975>> =>   \* "年収50万〜80万"
                  ret.comp_min = None /\ ret.comp_max = None

\* the annual-with-prefix pattern and the bare range both match, and the pair
\* is that of the first
C10_Witness ==
    /\ Returned
    /\ job.description = <<24180, 21454, 53, 48, 48, 19975, 12316, 56, 48, 48, 19975, 20870>>   \* "年収500万〜800万円"
    /\ CompMatches(1, job.description)
    /\ CompMatches(2, job.description)
    /\ ret.comp_min = Some(500)
    /\ ret.comp_max = Some(800)

----------------------------------------------------------------------------
\* C11: when a compensation pattern matches but its pair (x12 for the monthly
\* pattern) fails the [100, 3000] check, extraction goes on with the remaining
\* patterns in order and returns a later pattern's in-range pair; (None, None)
\* is returned only if no pattern yields an in-range pair.
C11_ContinuesAfterOutOfRange ==
    Returned =>
        LET d == job.description
            accepted == {n \in 1..Len(COMP_PATTERNS) : CompPairInRange(n, d)}
        IN /\ (ret.comp_min = None /\ ret.comp_max = None) <=> accepted = {}
           /\ accepted # {} =>
                  <<ret.comp_min, ret.comp_max>>
                      = <<Some(CompPair(Kth(accepted, 1), d)[1]),
                          Some(CompPair(Kth(accepted, 1), d)[2])>>

\* the annual patterns match an out-of-range pair and the monthly pattern's
\* pair is returned
C11_Witness ==
    /\ Returned
    /\ CompMatches(1, job.description)
    /\ ~CompPairInRange(1, job.description)
    /\ CompMatches(2, job.description)
    /\ ~CompPairInRange(2, job.description)
    /\ ret.comp_min = Some(600)
    /\ ret.comp_max = Some(840)

----------------------------------------------------------------------------
----------------------------------------------------------------------------
\* the keys process_jobs adds for an LLMScoreResult
LLM_KEYS == {"llm_score", "llm_dispatch_score", "llm_urgency_score",
             "llm_skill_match_score", "llm_reason", "llm_tags"}

\* results still holds the records in the order process_jobs appended them
Unsorted == pc \in {"loop", "returned", "sort"}

\* the record differs from the rule-only record of the same job in no field
\* but score
NonScoreFieldsIntact(record, raw) ==
    LET rule == RuleOutputs[raw]
    IN \A f \in DOMAIN rule \ {"score"} : f \in DOMAIN record /\ record[f] = rule[f]

\* C13: with rescoring enabled, a record whose rescoring call raises still
\* appears in the output batch, every non-score field as the rule-only
\* pipeline produces it, and carries a fallback score bundle: llm_score,
\* llm_dispatch_score, llm_urgency_score, llm_skill_match_score, llm_reason
\* and llm_tags are present.
C13_FailedCallKeepsRecordWithBundle ==
    Unsorted =>
        \A c \in 1..Len(llm_calls) :
            llm_calls[c].raised =>
                LET k == llm_calls[c].index + 1
                IN /\ k <= Len(results)
                   /\ NonScoreFieldsIntact(results[k], raw_jobs[k])
                   /\ LLM_KEYS \subseteq DOMAIN results[k]

----------------------------------------------------------------------------
\* the neutral default bundle: the four scores at the midpoint 50, no tags
\* and a diagnostic reason
IsNeutralBundle(result) ==
    /\ result.dispatch_score = PyInt(50)
    /\ result.urgency_score = PyInt(50)
    /\ result.skill_match_score = PyInt(50)
    /\ result.total_score = PyInt(50)
    /\ result.tags = PyList(<<>>)
    /\ result.reason.type = "str"
    /\ result.reason.value # <<>>

\* C14: when the external call itself raises, the rescoring overlay does not
\* propagate the failure but yields the neutral default bundle (dispatch,
\* urgency, skill-match and total score 50, an empty tag list, a diagnostic
\* rationale), in calculate_llm_score and in calculate_llm_score_batch.
C14_CallFailureYieldsNeutralBundle ==
    Returned =>
        \A k \in 1..Len(ret.outcomes) :
            ret.outcomes[k].raises =>
                IF ret.function = "calculate_llm_score"
                THEN ~ret.value.raised /\ IsNeutralBundle(ret.value.result)
                ELSE IsNeutralBundle(ret.value[k].result)

----------------------------------------------------------------------------
\* the response text is no JSON document, or a JSON document that is no object
Unparsable(response_text) ==
    LET loaded == json_loads(StripFence(response_text))
    IN ~loaded.ok \/ loaded.value.type # "dict"

\* C15: for every response text that cannot be parsed into the expected
\* structured shape (no JSON at all, or valid JSON that is no object: an
\* array, a number, a string), the overlay raises nothing and produces the
\* neutral bundle: the four scores 50, tags [] and a diagnostic reason.
C15_UnparsableYieldsNeutralBundle ==
    Returned =>
        \A k \in 1..Len(ret.outcomes) :
            LET outcome == ret.outcomes[k]
            IN (~outcome.raises /\ outcome.content # <<>> /\ Unparsable(outcome.content[1])) =>
                   IF ret.function = "calculate_llm_score"
                   THEN ~ret.value.raised /\ IsNeutralBundle(ret.value.result)
                   ELSE IsNeutralBundle(ret.value[k].result)

----------------------------------------------------------------------------
\* record n (counted from 0) is within the rescoring limit
WithinLimit(n) == IF llm_limit = None THEN TRUE ELSE n < llm_limit[1]

\* process_jobs rescores: rescoring was asked for and the client was built
Rescoring == use_llm /\ llm_client # "None"

\* the calls made for record n (counted from 0)
CallsFor(n) == {c \in 1..Len(llm_calls) : llm_calls[c].index = n}

\* C16: process_jobs returns exactly one output record per input RawJob, in
\* input order, whatever rescoring calls succeed or fail: a failure on record
\* i neither removes record i nor keeps the records after it from being
\* scored, normalized and, within the limit, rescored.
C16_OneRecordPerJobInOrder ==
    Unsorted =>
        /\ Len(results) = i
        /\ pc # "loop" => Len(results) = Len(raw_jobs)
        /\ \A k \in 1..Len(results) :
              /\ NonScoreFieldsIntact(results[k], raw_jobs[k])
              /\ (Rescoring /\ WithinLimit(k - 1)) <=> CallsFor(k - 1) # {}
              /\ (\A c \in CallsFor(k - 1) : llm_calls[c].raised) =>
                     results[k].score = RuleOutputs[raw_jobs[k]].score

\* the call for the first record raised, and the second record was rescored
\* and carries the external model's score
C16_Witness ==
    /\ pc = "returned"
    /\ Len(raw_jobs) = 2
    /\ Len(results) = 2
    /\ Len(llm_calls) = 2
    /\ llm_calls[1].raised
    /\ ~llm_calls[2].raised
    /\ "llm_score" \notin DOMAIN results[1]
    /\ "llm_score" \in DOMAIN results[2]

----------------------------------------------------------------------------
\* C17: in a run of process_jobs with record limit L (an integer, 0
\* included) the external collaborator is called at most once per record and
\* at most L times in all; with rescoring disabled it is not called.
C17_CallsBounded ==
    /\ \A n \in 0..Len(raw_jobs) : Cardinality(CallsFor(n)) <= 1
    /\ \A c \in 1..Len(llm_calls) : llm_calls[c].index < Len(raw_jobs)
    /\ llm_limit # None => Len(llm_calls) <= llm_limit[1]
    /\ ~use_llm => llm_calls = <<>>

\* two records, limit 1, rescoring enabled: one call, for the first record
C17_Witness ==
    /\ pc = "returned"
    /\ Rescoring
    /\ llm_limit = Some(1)
    /\ Len(raw_jobs) = 2
    /\ Len(llm_calls) = 1
    /\ llm_calls[1].index = 0

----------------------------------------------------------------------------
\* no record of the batch has a lower score than a record after it
Descending(batch) ==
    \A a, b \in 1..Len(batch) : a < b => ~KeyLess(batch[a].score, batch[b].score)

\* sorted holds the records of batch, highest score first, the records of
\* equal score in the order they have in batch
StableSortOf(sorted, batch) ==
    /\ Len(sorted) = Len(batch)
    /\ Descending(sorted)
    /\ \E p \in Permutations(1..Len(batch)) :
          /\ \A k \in 1..Len(batch) : sorted[k] = batch[p[k]]
          /\ \A a, b \in 1..Len(batch) :
                (a < b /\ sorted[a].score = sorted[b].score) => p[a] < p[b]

\* C18: the batch the CLI writes is sorted by the final score (the value
\* after any rescoring override) in descending order, and records of equal
\* score keep their relative input order.
C18_SortedDescendingStable ==
    [][/\ (pc = "sort" /\ pc' = "top") => StableSortOf(results', results)
       /\ (pc = "save" /\ pc' = "done") => (saved' = Some(results) /\ Descending(results))]_vars

\* a batch whose second record was rescored above the first has been written
\* with that record first
C18_Witness ==
    /\ pc = "done"
    /\ Len(raw_jobs) = 2
    /\ Len(saved[1]) = 2
    /\ "llm_score" \in DOMAIN saved[1][1]
    /\ saved[1][1].company_name = strip(raw_jobs[2].company_name)
    /\ saved[1][2].company_name = strip(raw_jobs[1].company_name)
    /\ saved[1][1].company_name # saved[1][2].company_name
    /\ KeyLess(saved[1][2].score, saved[1][1].score)

----------------------------------------------------------------------------
\* C19: when top-N is requested with an integer N >= 0, the saved batch is
\* the first min(N, total) records of the score-descending order, so it has at
\* most N records; when no top-N is requested the whole batch is saved.
C19_TopNTruncates ==
    [][/\ (pc = "top" /\ pc' = "save") =>
              results' = IF top' = None THEN results
                         ELSE SubSeq(results, 1, Min2(top'[1], Len(results)))
       /\ (pc = "save" /\ pc' = "done") => saved' = Some(results)]_vars

----------------------------------------------------------------------------
\* the line parses as a structured record: a JSON object whose text fields
\* are not null
TEXT_FIELDS == {"source", "company_name", "job_title", "url", "description",
                "location", "employment_type"}

WellFormed(raw_line) ==
    LET loaded == json_loads(strip(raw_line))
    IN /\ loaded.ok
       /\ loaded.value.type = "dict"
       /\ \A f \in TEXT_FIELDS \cap DOMAIN loaded.value.value :
              loaded.value.value[f].type = "str"

\* C20: load_raw_jobs never aborts because of a malformed line: every
\* non-empty line that does not parse as a structured record (invalid JSON,
\* valid JSON that is no object, an object whose text fields are null) is
\* skipped, and the records of the remaining well-formed lines are returned
\* in file order.
C20_MalformedLinesSkipped ==
    /\ pc # "crashed"
    /\ pc = "loaded" =>
          LET kept == SelectSeq(file_lines, WellFormed)
          IN /\ Len(ret) = Len(kept)
             /\ \A k \in 1..Len(kept) :
                   ret[k].company_name =
                       json_loads(strip(kept[k])).value.value.company_name

----------------------------------------------------------------------------
\* the collaborator cannot be constructed: the SDK is unavailable or the
\* client constructor raises
NoCollaborator == ~LLM_AVAILABLE \/ ~client_ok

\* C21: if rescoring is requested but the collaborator cannot be constructed
\* (the client constructor raises, or the SDK is unavailable), process_jobs
\* issues no external call for any record, and every output record carries
\* its rule-based score and none of the llm_* fields.
C21_NoCollaboratorRuleScoreOnly ==
    NoCollaborator =>
        /\ llm_calls = <<>>
        /\ llm_client = "None"
        /\ \A k \in 1..Len(results) :
              /\ LLM_KEYS \cap DOMAIN results[k] = {}
              /\ \E n \in 1..Len(raw_jobs) : results[k] = RuleOutputs[raw_jobs[n]]
        /\ Unsorted => \A k \in 1..Len(results) : results[k] = RuleOutputs[raw_jobs[k]]

\* process_jobs was called with use_llm=True, the constructor of the client
\* raised, and two records were returned with their rule scores
C21_Witness ==
    /\ pc = "returned"
    /\ LLM_AVAILABLE
    /\ ~client_ok
    /\ ~use_llm
    /\ Len(results) = 2
    /\ results[1].score = PyInt(100)
    /\ results[2].score = PyInt(28)

----------------------------------------------------------------------------
\* calculate_score of each job of the batches
RuleScores == [raw \in PipelineJobs |-> calculate_score(raw)]

\* the bundles the external model's answers carry: for each answer with a
\* text that parses to an object, its total_score with the defaults of
\* calculate_llm_score applied
ModelTotalScores ==
    {DictGet(_parse_llm_response(o.content[1]), "total_score", PyInt(50)) :
        o \in {m \in LlmOutcomes : /\ ~m.raises
                                   /\ m.content # <<>>
                                   /\ _parse_llm_response(m.content[1]).type = "dict"}}

\* the call made for record n (counted from 0) succeeded
Rescored(n) == \E c \in CallsFor(n) : ~llm_calls[c].raised

\* C22: a successful rescoring of a record changes only its score, set to
\* exactly the model's total_score with no blending with the rule score, and
\* adds the llm_* fields; source, company_name, job_title, url, posted_date,
\* description, location, employment_type, skills, category, remote_type,
\* comp_min and comp_max are as in a run without rescoring.  A record that is
\* not rescored has score equal to calculate_score of its RawJob.
C22_RescoringChangesScoreOnly ==
    Unsorted =>
        \A k \in 1..Len(results) :
            LET rule == RuleOutputs[raw_jobs[k]]
            IN IF Rescored(k - 1)
               THEN /\ DOMAIN results[k] = DOMAIN rule \cup LLM_KEYS
                    /\ \A f \in DOMAIN rule \ {"score"} : results[k][f] = rule[f]
                    /\ results[k].score = results[k].llm_score
                    /\ results[k].score \in ModelTotalScores
               ELSE /\ results[k] = rule
                    /\ results[k].score = PyInt(RuleScores[raw_jobs[k]])

\* the first record (rule score 100) was rescored to 85, the second was not
\* rescored and keeps its rule score 28
C22_Witness ==
    /\ pc = "returned"
    /\ Len(results) = 2
    /\ Rescored(0)
    /\ ~Rescored(1)
    /\ RuleScores[raw_jobs[1]] = 100
    /\ results[1].score = PyInt(85)
    /\ results[2].score = PyInt(28)

----------------------------------------------------------------------------
\* the fields of an LLMScoreResult that come from the parsed response
BUNDLE_KEYS == {"dispatch_score", "urgency_score", "skill_match_score",
                "total_score", "reason", "tags"}

Bundle(result) == [f \in BUNDLE_KEYS |-> result[f]]

\* the value calculate_llm_score returned is that of the same object sent
\* without a fence
SameAsUnfenced(d) ==
    LET unfenced == calculate_llm_score(job, Message(<<JSON_DOCS[d].text>>))
    IN /\ ~ret.value.raised
       /\ ~unfenced.raised
       /\ Bundle(ret.value.result) = Bundle(unfenced.result)
       /\ \A f \in BUNDLE_KEYS \cap DOMAIN JSON_DOCS[d].value.value :
             ret.value.result[f] = JSON_DOCS[d].value.value[f]

\* C23: a response consisting of a JSON object wrapped in a fenced code block
\* (opening fence line with or without a language tag, closing fence line) is
\* parsed to the same bundle as the same JSON object sent without the fence.
C23_FencedParsesAsUnfenced ==
    (Returned /\ ret.function = "calculate_llm_score") =>
        \A opening \in FenceOpenings, d \in ObjectDocs :
            ret.outcomes[1] = Message(<<Fenced(opening, JSON_DOCS[d].text)>>)
                => SameAsUnfenced(d)

\* the pretty-printed object of several lines, fenced with a language tag
C23_Witness ==
    /\ Returned
    /\ ret.function = "calculate_llm_score"
    /\ ret.outcomes[1] = Message(<<Fenced(<<96, 96, 96, 106, 115, 111, 110>>, JSON_DOCS[3].text)>>)   \* "```json"
    /\ ret.value.result.dispatch_score = PyInt(70)
    /\ ret.value.result.reason = PyStr(<<112, 97, 114, 116, 105, 97, 108>>)   \* "partial"

----------------------------------------------------------------------------
\* the record of a job by itself: the output dict of its normalized record
\* and rule score, made of the job and the tables only
IsolatedRecords ==
    [raw \in PipelineJobs |-> OutputDict(normalize(raw, calculate_score(raw)))]

----------------------------------------------------------------------------
\* the sum of the points of the entries numbered in hits
RECURSIVE SumPoints(_, _)
SumPoints(keywords, hits) ==
    IF hits = {} THEN 0
    ELSE LET n == CHOOSE h \in hits : TRUE
         IN keywords[n].points + SumPoints(keywords, hits \ {n})

\* the sum of the points of every keyword of the table occurring in text
\* whatever the case, each counted once
SumOccurring(keywords, text) ==
    SumPoints(keywords, {n \in 1..Len(keywords) :
                            OccursIgnoringCase(keywords[n].keyword, text)})

\* pattern occurs in text as it is written
Occurs(pattern, text) ==
    \E k \in 0..(Len(text) - Len(pattern)) :
        \A j \in 1..Len(pattern) : text[k + j] = pattern[j]

\* the points of the first entry of the list numbered in hits, 0 if none is
FirstPoints(entries, hits) ==
    IF hits = {} THEN 0
    ELSE entries[CHOOSE n \in hits : \A m \in hits : n <= m].points

\* the remote bonus: the first entry of the list occurring in location,
\* a space and description
RemoteBonus(j) ==
    FirstPoints(REMOTE_POSITIVE_KEYWORDS,
                {n \in 1..Len(REMOTE_POSITIVE_KEYWORDS) :
                    OccursIgnoringCase(REMOTE_POSITIVE_KEYWORDS[n].keyword,
                                       j.location \o <<32>> \o j.description)})

\* the employment bonus: the first label occurring in employment_type
EmploymentBonus(j) ==
    FirstPoints(EMPLOYMENT_TYPE_SCORES,
                {n \in 1..Len(EMPLOYMENT_TYPE_SCORES) :
                    Occurs(EMPLOYMENT_TYPE_SCORES[n].keyword, j.employment_type)})

\* the value brought into 0..100
Clip0To100(x) == IF x < 0 THEN 0 ELSE IF x > 100 THEN 100 ELSE x

C26_FirstMatchBonuses ==
    Returned =>
        /\ _check_remote(job.location, job.description) = RemoteBonus(job)
        /\ _check_remote(job.location, job.description) \in {0, 3, 5, 8}
        /\ _check_employment_type(job.employment_type) = EmploymentBonus(job)
        /\ _check_employment_type(job.employment_type) \in {0, 5, 10}

\* three remote phrases (リモート可, Hybrid, 在宅勤務) give 5 and two labels
\* (契約社員, 業務委託) give 10: 20 + 10 + 5 = 35
C26_Witness ==
    /\ Returned
    /\ job.job_title = <<>>   \* ""
    /\ job.location = <<26481, 20140, 40, 12522, 12514, 12540, 12488, 21487, 47, 72, 121, 98, 114, 105, 100, 41>>   \* "東京(リモート可/Hybrid)"
    /\ job.description = <<22312, 23429, 21220, 21209, 79, 75>>   \* "在宅勤務OK"
    /\ job.employment_type = <<22865, 32004, 31038, 21729, 40, 26989, 21209, 22996, 35351, 41>>   \* "契約社員(業務委託)"
    /\ _check_remote(job.location, job.description) = 5
    /\ _check_employment_type(job.employment_type) = 10
    /\ ret = 35

\* the title keywords but the generic one, which is the last
SPECIFIC_TITLE_KEYWORDS ==
    SubSeq(TITLE_POSITIVE_KEYWORDS, 1, Len(TITLE_POSITIVE_KEYWORDS) - 1)

\* C27: the generic title keyword "デザイナー" (10 points) contributes to the
\* title score only when no other title keyword matches the job title; a
\* title matching a more specific keyword such as "UIデザイナー" does not get
\* the generic 10 points as well.
C27_GenericTitleOnlyAlone ==
    Returned =>
        (AnyOccurs([n \in 1..Len(SPECIFIC_TITLE_KEYWORDS) |-> SPECIFIC_TITLE_KEYWORDS[n].keyword],
                   job.job_title)
            => _match_keywords(job.job_title, TITLE_POSITIVE_KEYWORDS)
                  = SumOccurring(SPECIFIC_TITLE_KEYWORDS, job.job_title))

----------------------------------------------------------------------------
\* C28: calculate_llm_score_batch treats limit as an upper bound on the
\* number of records processed: for every integer limit >= 0, 0 included, it
\* issues at most limit external calls and returns at most limit (job,
\* result) pairs, one per processed job in input order; only when limit is
\* None are all jobs processed.
C28_BatchLimitIsUpperBound ==
    (Returned /\ ret.function = "calculate_llm_score_batch") =>
        LET processed == IF llm_limit = None THEN Len(raw_jobs)
                         ELSE Min2(llm_limit[1], Len(raw_jobs))
        IN /\ Len(ret.outcomes) = processed
           /\ Len(ret.value) = processed
           /\ \A k \in 1..Len(ret.value) : ret.value[k].job = raw_jobs[k]

----------------------------------------------------------------------------
\* the description whose only compensation phrase is the monthly range
\* "月収N万〜M万", N and M written in digits
MonthlyRange(n_digits, m_digits) ==
    <<26376, 21454>> \o n_digits \o <<19975, 12316>> \o m_digits \o <<19975>>   \* "月収", "万〜", "万"

\* the figures of two or three digits, which the monthly pattern accepts
MonthlyFigures == {d \in CompNumbers : Len(d) \in 2..3}

\* C29: whenever compensation extraction returns a present pair for a
\* description whose only compensation phrase is a monthly range
\* ("月収N万〜M万"), the pair is the annualised (12*N, 12*M), for every digit
\* count the monthly pattern accepts, three-digit N and M included, which the
\* bare annual range pattern also matches.
C29_MonthlyRangeAnnualised ==
    Returned =>
        \A n_digits, m_digits \in MonthlyFigures :
            (job.description = MonthlyRange(n_digits, m_digits) /\ ret.comp_min # None) =>
                /\ ret.comp_min = Some(12 * ParseInt(n_digits))
                /\ ret.comp_max = Some(12 * ParseInt(m_digits))

----------------------------------------------------------------------------
\* the positions (counted from 0) of the records gone through for which a
\* rescoring call is due: with rescoring enabled those below the limit
DuePositions == {n \in 0..(i - 1) : Rescoring /\ WithinLimit(n)}

\* C30: with rescoring enabled and limit L, the records for which a rescoring
\* call is attempted are exactly those at input positions 0..L-1 (all records
\* when L is None); the choice depends on the input position only, not on
\* the rule score or on earlier failures: a failed call uses up one unit of
\* the budget and is not retried on another record.
C30_AttemptsByPositionOnly ==
    /\ {llm_calls[c].index : c \in 1..Len(llm_calls)} = DuePositions
    /\ Len(llm_calls) = Cardinality(DuePositions)
    /\ \A c, d \in 1..Len(llm_calls) : c < d => llm_calls[c].index < llm_calls[d].index

\* limit 1: the call for the first record (rule score 28) raised, and the
\* second record (rule score 100) was not sent in its place
C30_Witness ==
    /\ pc = "returned"
    /\ Rescoring
    /\ llm_limit = Some(1)
    /\ Len(results) = 2
    /\ llm_calls = <<[index |-> 0, raised |-> TRUE]>>
    /\ results[1].score = PyInt(28)
    /\ results[2].score = PyInt(100)

=============================================================================
